---------------------------- MODULE Spec2Model ----------------------------
(***************************************************************************)
(* A model of the allocator and garbage collector of src/src/alloc.c.      *)
(*                                                                         *)
(* The module holds one sub-model per subsystem, each with its own         *)
(* specification over its own group of variables:                          *)
(*   SpecTree     the red-black tree of allocated regions (mem_insert,     *)
(*                mem_delete, mem_find)                                    *)
(*   SpecTrigger  the thresholds that decide when a collection is due      *)
(*                (gc-cons-threshold, gc-cons-percentage,                  *)
(*                garbage-collect-maybe)                                   *)
(*   SpecHeap     the cons blocks, the cons free list, marking from the    *)
(*                staticpro'd variables and sweep_conses                   *)
(*   SpecFinalizer  finalizers and the counts of successive collections    *)
(*   SpecString   string headers, string data in sblocks, pin_string,      *)
(*                resize_string_data and compact_small_strings             *)
(*   SpecWeak     weak hash tables and the passes that mark through them   *)
(*   SpecRing     circular lists of conses, their marking and sweep        *)
(*   SpecVector   vector blocks, the vector free lists and sweep_vectors   *)
(*   SpecControl  the control of collection                                *)
(*   SpecCounter  the consing counters of memory-use-counts                *)
(*   SpecXpalloc  xpalloc and the array it grows                           *)
(*   SpecHash     hash tables met by marking and weak_hash_tables          *)
(*   SpecPure     pure storage, pure_alloc and PURE_P                      *)
(*   SpecStringAlloc string headers, string_free_list and string_overflow  *)
(*   SpecSymbol   symbol blocks, purecopy of symbols and sweep_symbols     *)
(*   SpecAblock   groups of aligned blocks, the busy word and free_ablock  *)
(***************************************************************************)
EXTENDS Integers, Sequences, FiniteSets, TLC

(***************************************************************************)
(* The heap index: struct mem_node, mem_z, mem_root, min/max_heap_address. *)
(***************************************************************************)
VARIABLES
  mem_nodes,          \* node id -> struct mem_node; MEM_NIL is always there
  mem_root,           \* static struct mem_node *mem_root
  min_heap_address,   \* lowest address ever inserted, NULL before
  max_heap_address,   \* highest end ever inserted, NULL before
  mem_regions         \* the <<start, end>> the callers have registered and
                      \* not deleted (kept for the properties; no code reads it)

treeVars ==
  <<mem_nodes, mem_root, min_heap_address, max_heap_address, mem_regions>>

(***************************************************************************)
(* The collection trigger.                                                 *)
(***************************************************************************)
VARIABLES
  gc_cons_threshold,    \* the C variable behind gc-cons-threshold
  Vgc_cons_percentage,  \* a Lisp value: a float (in tenths) or something else
  bytes_since_gc,       \* EMACS_INT bytes_since_gc
  bytes_between_gc,     \* EMACS_INT bytes_between_gc
  gc_inhibited,         \* bool gc_inhibited
  live_bytes,           \* total_bytes_of_live_objects (), from gcstat
  trigger_last          \* the operation that ran last, its argument and what
                        \* it returned (kept for the properties)

triggerVars ==
  <<gc_cons_threshold, Vgc_cons_percentage, bytes_since_gc, bytes_between_gc,
    gc_inhibited, live_bytes, trigger_last>>

(***************************************************************************)
(* The cons heap: cons blocks, the cons free list, the root variables.     *)
(***************************************************************************)
VARIABLES
  cons_cells,      \* cell -> [car, cdr]; cdr is the union u (cdr or chain)
  cons_gcmarkbits, \* the cells whose bit in their block's gcmarkbits is set
  cons_block,      \* the blocks, newest first (cons_block and the next links)
  cons_block_index,
  cons_free_list,  \* the first free cell, NULL if none
  staticvec,       \* the contents of the staticpro'd variables
  gcstat,          \* total_conses and total_free_conses
  cons_cells_consed,  \* the conses made so far
  heap_last        \* the operation that ran last and the cell it returned
                   \* or was given (kept for the properties)

heapVars ==
  <<cons_cells, cons_gcmarkbits, cons_block, cons_block_index,
    cons_free_list, staticvec, gcstat, cons_cells_consed, heap_last>>

(***************************************************************************)
(* Finalizers, their functions, floats and the counts of a collection.     *)
(***************************************************************************)
VARIABLES
  fin_objs,           \* finalizer -> [allocated, function]
  finalizers,         \* the list headed by finalizers, in order
  doomed_finalizers,  \* the list headed by doomed_finalizers, in order
  fn_conses,          \* cons -> [allocated, car]
  floats,             \* the float cells in use
  Vgc_elapsed,        \* nil until the first collection, then a float
  fin_staticvec,      \* the staticpro'd variables of this part
  fin_marked,         \* the objects whose mark bit is set
  fin_gcstat,         \* total_conses, total_vectors, total_floats
  fin_last            \* the last operation, the finalizers it ran, what
                      \* Vgc_elapsed held when it started, and what it followed

finVars ==
  <<fin_objs, finalizers, doomed_finalizers, fn_conses, floats, Vgc_elapsed,
    fin_staticvec, fin_marked, fin_gcstat, fin_last>>

(***************************************************************************)
(* Strings and their data.                                                 *)
(***************************************************************************)
VARIABLES
  strings,           \* header -> [data, size, size_byte]; data NULL if free
  sblock_mem,        \* sblock -> the cells from b->data on
  sblock_next_free,  \* sblock -> b->next_free, as an offset from b->data
  small_sblocks,     \* the list from oldest_sblock to current_sblock
  large_sblocks,     \* the list large_sblocks
  str_roots,         \* the strings the program refers to
  str_last           \* the last operation and its string; for a
                     \* collection, the sdata it moved and whether its
                     \* assertions held

stringVars ==
  <<strings, sblock_mem, sblock_next_free, small_sblocks, large_sblocks,
    str_roots, str_last>>

(***************************************************************************)
(* Weak hash tables.                                                       *)
(***************************************************************************)
VARIABLES
  weak_objects,      \* the objects allocated
  weak_roots,        \* the objects the program refers to
  weak_tables,       \* weak table -> [weak, entries]: its weakness and
                     \* its entries <<key, value>> in order
  weak_staticvec,    \* the weak tables in the order of their staticpro
  weak_last          \* the last operation; for a collection, the passes
                     \* over weak_hash_tables that marked

weakVars ==
  <<weak_objects, weak_roots, weak_tables, weak_staticvec, weak_last>>

(***************************************************************************)
(* Vectors.                                                                *)
(***************************************************************************)
VARIABLES
  vector_blocks,       \* the chain of vector blocks, head first
  vblock_mem,          \* block -> its words; <<>> when not allocated
  vector_free_lists,   \* index + 1 -> head of the chain of free vectors
  large_vectors,       \* the list of large vectors: their lengths, head first
  vec_roots,           \* the vectors the program refers to
  vec_gcstat,          \* total_vectors, total_vector_slots,
                       \* total_free_vector_slots
  vector_cells_consed, \* the counter of that name
  vec_bytes_since_gc,  \* what allocate_vectorlike has added to
                       \* bytes_since_gc since the last collection
  vec_last             \* the last operation and what it returned

vectorVars ==
  <<vector_blocks, vblock_mem, vector_free_lists, large_vectors, vec_roots,
    vec_gcstat, vector_cells_consed, vec_bytes_since_gc, vec_last>>

(***************************************************************************)
(* Control of collection: gc_in_progress, gc_inhibited, pure storage,      *)
(* memory_full.                                                            *)
(***************************************************************************)
VARIABLES
  ctl,       \* the C variables of this part, by name: gc_in_progress,
             \* gc_inhibited, Vmemory_full, initialized, mark_stk, the
             \* pure_... variables, gcs_done; and with them specpdl (the
             \* allow_garbage_collection entries on the specpdl), frames
             \* (the calls of garbage_collect that have passed its first
             \* test and not left it), sweeps_done (the calls of gc_sweep
             \* that have returned) and exited (the process has ended)
  ctl_last   \* the last operation and how it ended

controlVars == <<ctl, ctl_last>>

(***************************************************************************)
(* The consing counters of memory-use-counts.                              *)
(***************************************************************************)
VARIABLES
  consing,   \* the C variables cons_cells_consed, floats_consed,
             \* vector_cells_consed, symbols_consed, string_chars_consed,
             \* intervals_consed, strings_consed and bytes_since_gc, by
             \* name; and with them conses, the conses made and not freed
  cnt_last   \* the last operation and the amount it was given

counterVars == <<consing, cnt_last>>

(***************************************************************************)
(* xpalloc: an array grown by xpalloc.                                     *)
(***************************************************************************)
VARIABLES
  xp,        \* the caller's array: whether its pointer is not null, the
             \* caller's *nitems, the size of an item, and the bytes the
             \* array has
  xp_last    \* the last operation with the arguments it was given

xpallocVars == <<xp, xp_last>>

(***************************************************************************)
(* Hash tables met by marking and the list weak_hash_tables.               *)
(***************************************************************************)
VARIABLES
  hash_tables,       \* table -> [weak, key_and_value, next_weak]: Qnil or
                     \* its weakness, the objects in its key and value
                     \* vector, and the table after it on the list
  weak_hash_tables,  \* the head of the list of weak tables, NULL if none
  wh_staticvec,      \* the tables the staticpro'd variables hold, in order
  wh_last            \* the last operation; for a collection, the tables
                     \* marking linked, in order, what the core mark phase
                     \* marked, and whether the assertions held

whVars == <<hash_tables, weak_hash_tables, wh_staticvec, wh_last>>

(***************************************************************************)
(* Pure storage and the objects pure_alloc has handed out.                 *)
(***************************************************************************)
VARIABLES
  pure,         \* purebeg (the region it points to), pure_size, the
                \* counters of bytes used, gc_inhibited and the depth of
                \* the specpdl
  pure_allocs,  \* the storage handed out: its region, first byte, end and
                \* type
  pure_last     \* the last operation, the storage it returned, whether it
                \* went over to a new region, and the objects a collection
                \* traversed

pureVars == <<pure, pure_allocs, pure_last>>

(***************************************************************************)
(* String headers, string_free_list and the counters of strings.           *)
(***************************************************************************)
VARIABLES
  sa,        \* string_blocks, string_free_list, the data pointer of every
             \* header (the bytes of its data, 0 if null), the sdata
             \* allocate_string_data has set up and not freed, and
             \* strings_consed, string_chars_consed and bytes_since_gc
  sa_last    \* the last operation, the bytes asked for and how it ended

stringAllocVars == <<sa, sa_last>>

(***************************************************************************)
(* Symbol blocks, symbol_free_list and symbol_block_pinned.                *)
(***************************************************************************)
VARIABLES
  sy,        \* symbol_block as the chain of its blocks, symbol_block_index,
             \* symbol_block_pinned, symbol_free_list, the symbols in use,
             \* the symbols whose pinned bit is set and symbols_consed
  sy_last    \* the last operation, the pinned symbols it reclaimed and
             \* whether it read a block that had been freed

symbolVars == <<sy, sy_last>>

(***************************************************************************)
(* Aligned blocks: struct ablocks, the busy word and free_ablock.          *)
(***************************************************************************)
VARIABLES
  ab,        \* the groups malloc has returned and free has not taken back,
             \* each with its busy word and whether its base was aligned,
             \* and free_ablock
  ab_out,    \* the blocks lisp_align_malloc has returned and the callers
             \* have not given to lisp_align_free
  ab_last    \* the last operation, the group it freed if any and the
             \* count i of the blocks it took off free_ablock

ablockVars == <<ab, ab_out, ab_last>>

vars ==
  <<treeVars, triggerVars, heapVars, finVars, stringVars, weakVars,
    vectorVars, controlVars, counterVars, xpallocVars, whVars, pureVars,
    stringAllocVars, symbolVars, ablockVars>>
nonTreeVars ==
  <<triggerVars, heapVars, finVars, stringVars, weakVars, vectorVars,
    controlVars, counterVars, xpallocVars, whVars, pureVars,
    stringAllocVars, symbolVars, ablockVars>>
nonTriggerVars ==
  <<treeVars, heapVars, finVars, stringVars, weakVars, vectorVars,
    controlVars, counterVars, xpallocVars, whVars, pureVars,
    stringAllocVars, symbolVars, ablockVars>>
nonHeapVars ==
  <<treeVars, triggerVars, finVars, stringVars, weakVars, vectorVars,
    controlVars, counterVars, xpallocVars, whVars, pureVars,
    stringAllocVars, symbolVars, ablockVars>>
nonFinVars ==
  <<treeVars, triggerVars, heapVars, stringVars, weakVars, vectorVars,
    controlVars, counterVars, xpallocVars, whVars, pureVars,
    stringAllocVars, symbolVars, ablockVars>>
nonStringVars ==
  <<treeVars, triggerVars, heapVars, finVars, weakVars, vectorVars,
    controlVars, counterVars, xpallocVars, whVars, pureVars,
    stringAllocVars, symbolVars, ablockVars>>
nonWeakVars ==
  <<treeVars, triggerVars, heapVars, finVars, stringVars, vectorVars,
    controlVars, counterVars, xpallocVars, whVars, pureVars,
    stringAllocVars, symbolVars, ablockVars>>
nonVectorVars ==
  <<treeVars, triggerVars, heapVars, finVars, stringVars, weakVars,
    controlVars, counterVars, xpallocVars, whVars, pureVars,
    stringAllocVars, symbolVars, ablockVars>>
nonControlVars ==
  <<treeVars, triggerVars, heapVars, finVars, stringVars, weakVars,
    vectorVars, counterVars, xpallocVars, whVars, pureVars,
    stringAllocVars, symbolVars, ablockVars>>
nonCounterVars ==
  <<treeVars, triggerVars, heapVars, finVars, stringVars, weakVars,
    vectorVars, controlVars, xpallocVars, whVars, pureVars,
    stringAllocVars, symbolVars, ablockVars>>
nonXpallocVars ==
  <<treeVars, triggerVars, heapVars, finVars, stringVars, weakVars,
    vectorVars, controlVars, counterVars, whVars, pureVars,
    stringAllocVars, symbolVars, ablockVars>>
nonWhVars ==
  <<treeVars, triggerVars, heapVars, finVars, stringVars, weakVars,
    vectorVars, controlVars, counterVars, xpallocVars, pureVars,
    stringAllocVars, symbolVars, ablockVars>>
nonPureVars ==
  <<treeVars, triggerVars, heapVars, finVars, stringVars, weakVars,
    vectorVars, controlVars, counterVars, xpallocVars, whVars,
    stringAllocVars, symbolVars, ablockVars>>
nonStringAllocVars ==
  <<treeVars, triggerVars, heapVars, finVars, stringVars, weakVars,
    vectorVars, controlVars, counterVars, xpallocVars, whVars, pureVars,
    symbolVars, ablockVars>>
nonSymbolVars ==
  <<treeVars, triggerVars, heapVars, finVars, stringVars, weakVars,
    vectorVars, controlVars, counterVars, xpallocVars, whVars, pureVars,
    stringAllocVars, ablockVars>>
nonAblockVars ==
  <<treeVars, triggerVars, heapVars, finVars, stringVars, weakVars,
    vectorVars, controlVars, counterVars, xpallocVars, whVars, pureVars,
    stringAllocVars, symbolVars>>

\* The C null pointer; no object and no node lives at address 0.
NULL == 0
\* &mem_z, the sentinel node.
MEM_NIL == 1

\* Bounds of the tree model: the addresses a region may cover, the longest
\* region, and how many regions are registered at once.
MaxAddr == 6
MaxRegionLen == 2
MaxNodes == 6

MEM_BLACK == "MEM_BLACK"
MEM_RED == "MEM_RED"
\* enum mem_type; the tree only stores and copies it.
MemTypes == {"MEM_TYPE_NON_LISP"}

Addrs == 1..MaxAddr
NodeIds == 2..(MaxNodes + 1)

\* mem_init: the sentinel is black, its own child, with no parent.
MemZInit ==
  [left |-> MEM_NIL, right |-> MEM_NIL, parent |-> NULL, start |-> NULL,
   end |-> NULL, color |-> MEM_BLACK, type |-> "MEM_TYPE_NON_LISP"]

\* A tree value threaded through the C code: the nodes and mem_root.
Tree(n, r) == [n |-> n, root |-> r]

SetLeft(t, i, v) == [t EXCEPT !.n[i].left = v]
SetRight(t, i, v) == [t EXCEPT !.n[i].right = v]
SetParent(t, i, v) == [t EXCEPT !.n[i].parent = v]
SetColor(t, i, v) == [t EXCEPT !.n[i].color = v]
SetRoot(t, v) == [t EXCEPT !.root = v]
ParentOf(t, i) == t.n[i].parent
GrandOf(t, i) == t.n[t.n[i].parent].parent

\* mem_rotate_left (x), statement by statement; y is x->right on entry.
mem_rotate_left(t, x) ==
  LET y == t.n[x].right
      S1(u) == SetRight(u, x, u.n[y].left)
      S2(u) == IF u.n[y].left # MEM_NIL THEN SetParent(u, u.n[y].left, x)
                                        ELSE u
      S3(u) == IF y # MEM_NIL THEN SetParent(u, y, u.n[x].parent) ELSE u
      S4(u) == IF u.n[x].parent # NULL
                 THEN IF x = u.n[u.n[x].parent].left
                        THEN SetLeft(u, u.n[x].parent, y)
                        ELSE SetRight(u, u.n[x].parent, y)
                 ELSE SetRoot(u, y)
      S5(u) == SetLeft(u, y, x)
      S6(u) == IF x # MEM_NIL THEN SetParent(u, x, y) ELSE u
  IN S6(S5(S4(S3(S2(S1(t))))))

\* mem_rotate_right (x); y is x->left on entry.
mem_rotate_right(t, x) ==
  LET y == t.n[x].left
      S1(u) == SetLeft(u, x, u.n[y].right)
      S2(u) == IF u.n[y].right # MEM_NIL THEN SetParent(u, u.n[y].right, x)
                                         ELSE u
      S3(u) == IF y # MEM_NIL THEN SetParent(u, y, u.n[x].parent) ELSE u
      S4(u) == IF u.n[x].parent # NULL
                 THEN IF x = u.n[u.n[x].parent].right
                        THEN SetRight(u, u.n[x].parent, y)
                        ELSE SetLeft(u, u.n[x].parent, y)
                 ELSE SetRoot(u, y)
      S5(u) == SetRight(u, y, x)
      S6(u) == IF x # MEM_NIL THEN SetParent(u, x, y) ELSE u
  IN S6(S5(S4(S3(S2(S1(t))))))

\* The loop of mem_insert_fixup.  Recolour is the branch for a red uncle y;
\* TailRight and TailLeft are the ends of the other branch (parent black,
\* grandparent red, rotate the grandparent), entered after "x = x->parent"
\* and a rotation of x when x is an inner grandchild.
RECURSIVE InsertFixupLoop(_, _)
InsertFixupLoop(t, x) ==
  LET Recolour(u, v, y) ==
        SetColor(SetColor(SetColor(u, ParentOf(u, v), MEM_BLACK),
                          y, MEM_BLACK),
                 GrandOf(u, v), MEM_RED)
      TailRight(u, v) ==
        mem_rotate_right(SetColor(SetColor(u, ParentOf(u, v), MEM_BLACK),
                                  GrandOf(u, v), MEM_RED),
                         GrandOf(u, v))
      TailLeft(u, v) ==
        mem_rotate_left(SetColor(SetColor(u, ParentOf(u, v), MEM_BLACK),
                                 GrandOf(u, v), MEM_RED),
                        GrandOf(u, v))
  IN
  IF ~(x # t.root /\ t.n[ParentOf(t, x)].color = MEM_RED) THEN t
  ELSE IF ParentOf(t, x) = t.n[GrandOf(t, x)].left
    THEN IF t.n[t.n[GrandOf(t, x)].right].color = MEM_RED
           THEN InsertFixupLoop(Recolour(t, x, t.n[GrandOf(t, x)].right),
                                GrandOf(t, x))
           ELSE IF x = t.n[ParentOf(t, x)].right
             THEN InsertFixupLoop(
                    TailRight(mem_rotate_left(t, ParentOf(t, x)),
                              ParentOf(t, x)),
                    ParentOf(t, x))
             ELSE InsertFixupLoop(TailRight(t, x), x)
    ELSE IF t.n[t.n[GrandOf(t, x)].left].color = MEM_RED
           THEN InsertFixupLoop(Recolour(t, x, t.n[GrandOf(t, x)].left),
                                GrandOf(t, x))
           ELSE IF x = t.n[ParentOf(t, x)].left
             THEN InsertFixupLoop(
                    TailLeft(mem_rotate_right(t, ParentOf(t, x)),
                             ParentOf(t, x)),
                    ParentOf(t, x))
             ELSE InsertFixupLoop(TailLeft(t, x), x)

\* Mutant: mem_insert_fixup without its last statement.
BlackenRootSkipped(t) == t
\* mem_root->color = MEM_BLACK.
BlackenRoot(t) == SetColor(t, t.root, MEM_BLACK)
mem_insert_fixup(t, x) == BlackenRoot(InsertFixupLoop(t, x))

\* The descent of mem_insert: the last node visited before MEM_NIL, NULL in
\* an empty tree.
RECURSIVE InsertParent(_, _, _, _)
InsertParent(t, c, parent, start) ==
  IF c = MEM_NIL THEN parent
  ELSE InsertParent(t, IF start < t.n[c].start THEN t.n[c].left
                                                ELSE t.n[c].right,
                    c, start)

\* xmalloc (sizeof *x): storage not in use.  Which unused node malloc hands
\* out does not matter to the tree, so the model takes the lowest one.
NewNode(n) == CHOOSE x \in NodeIds \ DOMAIN n :
                \A y \in NodeIds \ DOMAIN n : x <= y

\* mem_insert (start, end, type) without its update of min_heap_address and
\* max_heap_address, which the action MemInsert makes.
mem_insert(t, start, end, type) ==
  LET x == NewNode(t.n)
      parent == InsertParent(t, t.root, NULL, start)
      rec == [left |-> MEM_NIL, right |-> MEM_NIL, parent |-> parent,
              start |-> start, end |-> end, color |-> MEM_RED,
              type |-> type]
      AddNode(u) ==
        Tree([i \in DOMAIN u.n \cup {x} |-> IF i = x THEN rec ELSE u.n[i]],
             u.root)
      LinkNode(u) ==
        IF parent # NULL
          THEN IF start < u.n[parent].start THEN SetLeft(u, parent, x)
                                            ELSE SetRight(u, parent, x)
          ELSE SetRoot(u, x)
  IN mem_insert_fixup(LinkNode(AddNode(t)), x)

\* mem_delete_fixup (x).  Case1, Case3 and Case4 are the three rewritings of
\* the loop body for x a left child (L) or a right child (R) with sibling w;
\* the sibling is read again after cases 1 and 3, and "x = mem_root" after
\* case 4 ends the loop at its next test.
RECURSIVE mem_delete_fixup(_, _)
mem_delete_fixup(t, x) ==
  LET SibR(u) == u.n[ParentOf(u, x)].right
      SibL(u) == u.n[ParentOf(u, x)].left
      AtRoot(u) == mem_delete_fixup(u, u.root)
      LCase1(u, w) ==
        mem_rotate_left(SetColor(SetColor(u, w, MEM_BLACK),
                                 ParentOf(u, x), MEM_RED),
                        ParentOf(u, x))
      LCase3(u, w) ==
        mem_rotate_right(SetColor(SetColor(u, u.n[w].left, MEM_BLACK),
                                  w, MEM_RED),
                         w)
      LCase4(u, w) ==
        mem_rotate_left(
          SetColor(SetColor(SetColor(u, w, u.n[ParentOf(u, x)].color),
                            ParentOf(u, x), MEM_BLACK),
                   u.n[w].right, MEM_BLACK),
          ParentOf(u, x))
      RCase1(u, w) ==
        mem_rotate_right(SetColor(SetColor(u, w, MEM_BLACK),
                                  ParentOf(u, x), MEM_RED),
                         ParentOf(u, x))
      RCase3(u, w) ==
        mem_rotate_left(SetColor(SetColor(u, u.n[w].right, MEM_BLACK),
                                 w, MEM_RED),
                        w)
      RCase4(u, w) ==
        mem_rotate_right(
          SetColor(SetColor(SetColor(u, w, u.n[ParentOf(u, x)].color),
                            ParentOf(u, x), MEM_BLACK),
                   u.n[w].left, MEM_BLACK),
          ParentOf(u, x))
      LCase4Again(u) == LCase4(u, SibR(u))
      RCase4Again(u) == RCase4(u, SibL(u))
      LRest(u, w) ==
        IF u.n[u.n[w].left].color = MEM_BLACK
           /\ u.n[u.n[w].right].color = MEM_BLACK
          THEN mem_delete_fixup(SetColor(u, w, MEM_RED), ParentOf(u, x))
          ELSE IF u.n[u.n[w].right].color = MEM_BLACK
            THEN AtRoot(LCase4Again(LCase3(u, w)))
            ELSE AtRoot(LCase4(u, w))
      RRest(u, w) ==
        IF u.n[u.n[w].right].color = MEM_BLACK
           /\ u.n[u.n[w].left].color = MEM_BLACK
          THEN mem_delete_fixup(SetColor(u, w, MEM_RED), ParentOf(u, x))
          ELSE IF u.n[u.n[w].left].color = MEM_BLACK
            THEN AtRoot(RCase4Again(RCase3(u, w)))
            ELSE AtRoot(RCase4(u, w))
      LRestAgain(u) == LRest(u, SibR(u))
      RRestAgain(u) == RRest(u, SibL(u))
  IN
  IF ~(x # t.root /\ t.n[x].color = MEM_BLACK) THEN SetColor(t, x, MEM_BLACK)
  ELSE IF x = t.n[ParentOf(t, x)].left
    THEN IF t.n[SibR(t)].color = MEM_RED
           THEN LRestAgain(LCase1(t, SibR(t)))
           ELSE LRest(t, SibR(t))
    ELSE IF t.n[SibL(t)].color = MEM_RED
           THEN RRestAgain(RCase1(t, SibL(t)))
           ELSE RRest(t, SibL(t))

\* The leftmost node of the subtree at y (the successor search of mem_delete).
RECURSIVE Leftmost(_, _)
Leftmost(t, y) ==
  IF t.n[y].left # MEM_NIL THEN Leftmost(t, t.n[y].left) ELSE y

\* Mutant: the successor's end is not copied into z.
CopyRegionStartOnly(t, z, y) ==
  IF y # z THEN [t EXCEPT !.n[z].start = t.n[y].start] ELSE t
\* mem_delete: "if (y != z)", the successor's region moves into z.
CopyRegion(t, z, y) ==
  IF y # z
    THEN [t EXCEPT !.n[z].start = t.n[y].start, !.n[z].end = t.n[y].end,
                   !.n[z].type = t.n[y].type]
    ELSE t

\* mem_delete (z): y is the node unlinked and freed, x the child that takes
\* its place.
mem_delete(t, z) ==
  LET y == IF t.n[z].left = MEM_NIL \/ t.n[z].right = MEM_NIL
             THEN z ELSE Leftmost(t, t.n[z].right)
      x == IF t.n[y].left # MEM_NIL THEN t.n[y].left ELSE t.n[y].right
      Splice(u) ==
        IF u.n[y].parent # NULL
          THEN IF y = u.n[u.n[y].parent].left
                 THEN SetLeft(u, u.n[y].parent, x)
                 ELSE SetRight(u, u.n[y].parent, x)
          ELSE SetRoot(u, x)
      FixupIfBlack(u) ==
        IF u.n[y].color = MEM_BLACK THEN mem_delete_fixup(u, x) ELSE u
      FreeNode(u) == Tree([i \in DOMAIN u.n \ {y} |-> u.n[i]], u.root)
  IN IF z = NULL \/ z = MEM_NIL THEN t
     ELSE FreeNode(FixupIfBlack(CopyRegion(
            Splice(SetParent(t, x, t.n[y].parent)), z, y)))

\* The loop of mem_find, run with mem_z covering START so that it ends.
RECURSIVE FindLoop(_, _, _)
FindLoop(n, p, start) ==
  IF start < n[p].start \/ start >= n[p].end
    THEN FindLoop(n, IF start < n[p].start THEN n[p].left ELSE n[p].right,
                     start)
    ELSE p

\* mem_z as mem_find leaves it.
FindLeaves(n, start) ==
  [n EXCEPT ![MEM_NIL].start = start, ![MEM_NIL].end = start + 1]

\* Mutant: the test at the top also turns away min_heap_address itself.
mem_find_above_min(n, root, lo, hi, start) ==
  IF start <= lo \/ start > hi THEN MEM_NIL
  ELSE FindLoop(FindLeaves(n, start), root, start)

mem_find(n, root, lo, hi, start) ==
  IF start < lo \/ start > hi THEN MEM_NIL
  ELSE FindLoop(FindLeaves(n, start), root, start)

\* The code compares node addresses only for equality, and which address
\* xmalloc returns is not the program's choice.  After each operation the
\* model therefore renames the nodes: a node is named by the rank of its
\* start address among the registered regions (MEM_NIL and NULL keep their
\* names).
\* mem_z.parent may be left pointing at the node mem_delete has freed; the
\* code writes it before it reads it again.  MemFreed names that address.
MemFreed == MaxNodes + 2

Rank(n, i) ==
  IF i = MEM_NIL \/ i = NULL THEN i
  ELSE IF i \notin DOMAIN n THEN MemFreed
  ELSE 1 + Cardinality({j \in DOMAIN n \ {MEM_NIL} : n[j].start <= n[i].start})

Rename(t) ==
  LET ids == {Rank(t.n, i) : i \in DOMAIN t.n}
      Of(k) == CHOOSE i \in DOMAIN t.n : Rank(t.n, i) = k
  IN Tree([k \in ids |->
             [t.n[Of(k)] EXCEPT !.left = Rank(t.n, @),
                                !.right = Rank(t.n, @),
                                !.parent = Rank(t.n, @)]],
          Rank(t.n, t.root))

TreeInit ==
  /\ mem_nodes = [i \in {MEM_NIL} |-> MemZInit]
  /\ mem_root = MEM_NIL
  /\ min_heap_address = NULL
  /\ max_heap_address = NULL
  /\ mem_regions = {}

\* The regions now in the index, as the allocator sees them.
Registered == {i \in DOMAIN mem_nodes : i # MEM_NIL}
Overlaps(s, e) == \E r \in mem_regions : s < r[2] /\ r[1] < e

\* mem_insert (start, end, type), called by lisp_malloc and
\* lisp_align_malloc with a region malloc has just returned, which
\* overlaps no registered one.
MemInsert(start, end, type) ==
  /\ Cardinality(mem_regions) < MaxNodes
  /\ ~Overlaps(start, end)
  /\ mem_regions' = mem_regions \cup {<<start, end>>}
  /\ LET t == Rename(mem_insert(Tree(mem_nodes, mem_root),
                                       start, end, type))
     IN /\ mem_nodes' = t.n
        /\ mem_root' = t.root
  /\ UNCHANGED nonTreeVars
  /\ min_heap_address' = IF min_heap_address = NULL \/ start < min_heap_address
                           THEN start ELSE min_heap_address
  /\ max_heap_address' = IF max_heap_address = NULL \/ end > max_heap_address
                           THEN end ELSE max_heap_address

\* mem_delete (z).
MemDelete(z) ==
  /\ LET t == Rename(mem_delete(Tree(mem_nodes, mem_root), z))
     IN /\ mem_nodes' = t.n
        /\ mem_root' = t.root
  /\ mem_regions' = IF z = NULL \/ z = MEM_NIL THEN mem_regions
                    ELSE mem_regions
                           \ {<<mem_nodes[z].start, mem_nodes[z].end>>}
  /\ UNCHANGED <<min_heap_address, max_heap_address, nonTreeVars>>

\* mem_find (start): the operator mem_find is what it returns; what it leaves behind
\* is the region stored in mem_z.
MemFind(start) ==
  /\ mem_nodes' = IF start < min_heap_address \/ start > max_heap_address
                    THEN mem_nodes ELSE FindLeaves(mem_nodes, start)
  /\ UNCHANGED <<mem_root, min_heap_address, max_heap_address, mem_regions,
                 nonTreeVars>>

TreeNext ==
  \/ \E s \in Addrs, len \in 1..MaxRegionLen, ty \in MemTypes :
       s + len <= MaxAddr + 1 /\ MemInsert(s, s + len, ty)
  \/ \E z \in Registered \cup {MEM_NIL, NULL} : MemDelete(z)
  \/ \E a \in 1..(MaxAddr + 1) : MemFind(a)

(***************************************************************************)
(* Properties of the heap index.                                           *)
(***************************************************************************)
\* The registered regions that hold address a.
Holding(a) == {r \in mem_regions : r[1] <= a /\ a < r[2]}

\* What mem_find (a) returns in the current state.
Found(a) ==
  mem_find(mem_nodes, mem_root, min_heap_address, max_heap_address, a)

\* C7: after any sequence of mem_insert (of non-overlapping regions) and
\* mem_delete, mem_find (a) returns a node whose [start, end) is the
\* registered region that holds a, for every address a in a registered
\* region, and MEM_NIL for every address in no registered region, the
\* addresses of deleted regions included.
C7_FindReturnsHolder ==
  \A a \in 1..(MaxAddr + 1) :
    IF Holding(a) = {}
      THEN Found(a) = MEM_NIL
      ELSE /\ Found(a) \in Registered
           /\ Holding(a) = {<<mem_nodes[Found(a)].start,
                              mem_nodes[Found(a)].end>>}

\* C39: min_heap_address is at most the start and max_heap_address at least
\* the end of every region in the index, and for an address inside a
\* registered region mem_find goes on to the search: what it returns is
\* what its loop finds.
C39_HeapAddressesBoundRegions ==
  \A i \in Registered :
    /\ min_heap_address # NULL
    /\ min_heap_address <= mem_nodes[i].start
    /\ max_heap_address >= mem_nodes[i].end
    /\ \A a \in mem_nodes[i].start..(mem_nodes[i].end - 1) :
         /\ ~(a < min_heap_address \/ a > max_heap_address)
         /\ Found(a) = FindLoop(FindLeaves(mem_nodes, a), mem_root, a)
         /\ Found(a) # MEM_NIL

\* A state of C39: the region that set min_heap_address has been deleted,
\* two regions or more are registered, one of them ends at
\* max_heap_address and one is two addresses long or more.
C39_Witness ==
  /\ Cardinality(Registered) >= 2
  /\ \A i \in Registered : mem_nodes[i].start > min_heap_address
  /\ \E i \in Registered : mem_nodes[i].end = max_heap_address
  /\ \E i \in Registered : mem_nodes[i].end - mem_nodes[i].start >= 2

\* A state of C7: three regions or more, one of them two addresses long, a
\* node with two children deleted before (so a successor's region was copied),
\* and an address that was registered and deleted: it lies between the lowest
\* start and the highest end ever seen, in no region, below a live region.
C7_Witness ==
  /\ Cardinality(mem_regions) >= 3
  /\ \E r \in mem_regions : r[2] = r[1] + 2
  /\ \E a \in Addrs :
       /\ min_heap_address <= a /\ a < max_heap_address
       /\ Holding(a) = {}
       /\ \E r \in mem_regions : r[1] > a
  /\ \A r \in mem_regions : r[2] < max_heap_address

\* The nodes of the subtree at i.
RECURSIVE Subtree(_)
Subtree(i) ==
  IF i = MEM_NIL THEN {}
  ELSE {i} \cup Subtree(mem_nodes[i].left) \cup Subtree(mem_nodes[i].right)

\* The number of black nodes on every path from i down to MEM_NIL, MEM_NIL
\* counted; -1 if two paths differ.
RECURSIVE BlackHeight(_)
BlackHeight(i) ==
  IF i = MEM_NIL THEN 1
  ELSE LET l == BlackHeight(mem_nodes[i].left)
           r == BlackHeight(mem_nodes[i].right)
       IN IF l = -1 \/ r = -1 \/ l # r THEN -1
          ELSE l + (IF mem_nodes[i].color = MEM_BLACK THEN 1 ELSE 0)

SearchTree ==
  /\ Subtree(mem_root) = Registered
  /\ \A i \in Registered :
       /\ \A j \in Subtree(mem_nodes[i].left) :
            mem_nodes[j].start < mem_nodes[i].start
       /\ \A j \in Subtree(mem_nodes[i].right) :
            mem_nodes[j].start > mem_nodes[i].start

\* C8: after every mem_insert and every mem_delete the heap index is a
\* red-black search tree: ordered by start address, root black, no red node
\* with a red child, the same number of black nodes on every path from the
\* root to MEM_NIL, and MEM_NIL black.
C8_RedBlackTree ==
  /\ SearchTree
  /\ mem_nodes[mem_root].color = MEM_BLACK
  /\ mem_nodes[MEM_NIL].color = MEM_BLACK
  /\ \A i \in Registered :
       mem_nodes[i].color = MEM_RED =>
         /\ mem_nodes[mem_nodes[i].left].color = MEM_BLACK
         /\ mem_nodes[mem_nodes[i].right].color = MEM_BLACK
  /\ BlackHeight(mem_root) # -1

\* A state of C8: a tree of five nodes or more with a red node that has two
\* black children, reached after a deletion (the highest region ever
\* registered is gone).
C8_Witness ==
  /\ Cardinality(Registered) >= 5
  /\ \E i \in Registered :
       /\ mem_nodes[i].color = MEM_RED
       /\ mem_nodes[i].left # MEM_NIL
       /\ mem_nodes[i].right # MEM_NIL
  /\ \A i \in Registered : mem_nodes[i].end < max_heap_address

(***************************************************************************)
(* The collection trigger: update_bytes_between_gc, the two variable       *)
(* watchers, garbage_collect as far as the trigger sees it, and            *)
(* garbage-collect-maybe.                                                  *)
(***************************************************************************)
\* Lisp values as this part of the program tells them apart.
LispInt(n) == <<"integer", n>>
\* A float, held in tenths: LispFloat(15) is 1.5.
LispFloat(tenths) == <<"float", tenths>>
Qnil == <<"symbol", "nil">>
Qt == <<"symbol", "t">>
INTEGERP(v) == v[1] = "integer"
FLOATP(v) == v[1] = "float"

word_size == 8
GC_DEFAULT_THRESHOLD == (2 ^ 17) * word_size
\* GC_DEFAULT_THRESHOLD >> 3
ThresholdFloor == GC_DEFAULT_THRESHOLD \div 8
sizeof_Lisp_Float == 8

\* The most bytes_since_gc the model lets allocation reach.
MaxBytesSince == 330000

\* What the user may assign to gc-cons-threshold and gc-cons-percentage,
\* what one allocation adds to bytes_since_gc, and the live-byte totals a
\* sweep may leave in gcstat.
ThresholdInputs ==
  {Qnil, LispInt(1000), LispInt(300000)}
PercentageInputs ==
  {Qnil, LispFloat(-10), LispFloat(1), LispFloat(15)}
AllocInputs == {65536, 131072}
LiveInputs == {100005, 4000000}

Max(a, b) == IF a >= b THEN a ELSE b

\* The conversion of a double to intmax_t drops the fraction, towards zero.
DoubleToIntmax(num, den) ==
  IF num >= 0 THEN num \div den ELSE -((-num) \div den)

\* Mutant: the percentage constraint is ignored.
update_bytes_between_gc_threshold_only(threshold0, percentage, live) ==
  threshold0
\* update_bytes_between_gc: the value it stores in bytes_between_gc.
update_bytes_between_gc(threshold0, percentage, live) ==
  Max(threshold0,
      IF FLOATP(percentage)
        THEN DoubleToIntmax(percentage[2] * live, 10)
        ELSE threshold0)

\* The record of an operation; for garbage-collect-maybe it keeps the two
\* counters the call compared.
Last(op, arg, ret, ran) ==
  [op |-> op, arg |-> arg, ret |-> ret, ran |-> ran,
   since |-> IF op = "garbage_collect_maybe" THEN bytes_since_gc ELSE 0,
   between |-> IF op = "garbage_collect_maybe" THEN bytes_between_gc ELSE 0]

TriggerInit ==
  /\ gc_cons_threshold = GC_DEFAULT_THRESHOLD
  /\ Vgc_cons_percentage = LispFloat(1)
  /\ bytes_since_gc = sizeof_Lisp_Float
  /\ bytes_between_gc = GC_DEFAULT_THRESHOLD
  /\ gc_inhibited = FALSE
  /\ live_bytes = 0
  /\ trigger_last = Last("init_alloc_once", Qnil, Qnil, FALSE)

\* watch_gc_cons_threshold (symbol, newval, operation, where).
WatchGcConsThreshold(newval) ==
  /\ IF INTEGERP(newval)
       THEN /\ gc_cons_threshold' = Max(newval[2], ThresholdFloor)
            /\ bytes_between_gc' =
                 update_bytes_between_gc(Max(newval[2], ThresholdFloor),
                                         Vgc_cons_percentage, live_bytes)
       ELSE UNCHANGED <<gc_cons_threshold, bytes_between_gc>>
  /\ trigger_last' = Last("watch_gc_cons_threshold", newval, Qnil, FALSE)
  /\ UNCHANGED <<Vgc_cons_percentage, bytes_since_gc, gc_inhibited,
                 live_bytes, nonTriggerVars>>

\* DEFVAR_INT ("gc-cons-threshold", gc_cons_threshold): an assignment to the
\* Lisp variable is a store into the C variable.
StoreGcConsThreshold(newval) ==
  /\ INTEGERP(newval)
  /\ gc_cons_threshold' = newval[2]
  /\ trigger_last' = Last("store_gc_cons_threshold", newval, Qnil, FALSE)
  /\ UNCHANGED <<Vgc_cons_percentage, bytes_since_gc, bytes_between_gc,
                 gc_inhibited, live_bytes, nonTriggerVars>>

\* watch_gc_cons_percentage (symbol, newval, operation, where).
WatchGcConsPercentage(newval) ==
  /\ IF FLOATP(newval)
       THEN /\ Vgc_cons_percentage' = newval
            /\ bytes_between_gc' =
                 update_bytes_between_gc(gc_cons_threshold, newval,
                                         live_bytes)
       ELSE UNCHANGED <<Vgc_cons_percentage, bytes_between_gc>>
  /\ trigger_last' = Last("watch_gc_cons_percentage", newval, Qnil, FALSE)
  /\ UNCHANGED <<gc_cons_threshold, bytes_since_gc, gc_inhibited, live_bytes,
                 nonTriggerVars>>

\* DEFVAR_LISP ("gc-cons-percentage", Vgc_cons_percentage): any Lisp value
\* may be stored.
StoreGcConsPercentage(newval) ==
  /\ Vgc_cons_percentage' = newval
  /\ trigger_last' = Last("store_gc_cons_percentage", newval, Qnil, FALSE)
  /\ UNCHANGED <<gc_cons_threshold, bytes_since_gc, bytes_between_gc,
                 gc_inhibited, live_bytes, nonTriggerVars>>

\* An allocation of nbytes: bytes_since_gc += nbytes.
Allocate(nbytes) ==
  /\ bytes_since_gc + nbytes <= MaxBytesSince
  /\ bytes_since_gc' = bytes_since_gc + nbytes
  /\ trigger_last' = Last("allocate", LispInt(nbytes), Qnil, FALSE)
  /\ UNCHANGED <<gc_cons_threshold, Vgc_cons_percentage, bytes_between_gc,
                 gc_inhibited, live_bytes, nonTriggerVars>>

\* inhibit_garbage_collection and, at unwinding, allow_garbage_collection.
InhibitGarbageCollection ==
  /\ gc_inhibited' = TRUE
  /\ trigger_last' = Last("inhibit_garbage_collection", Qnil, Qnil, FALSE)
  /\ UNCHANGED <<gc_cons_threshold, Vgc_cons_percentage, bytes_since_gc,
                 bytes_between_gc, live_bytes, nonTriggerVars>>
AllowGarbageCollection ==
  /\ gc_inhibited
  /\ gc_inhibited' = FALSE
  /\ trigger_last' = Last("allow_garbage_collection", Qnil, Qnil, FALSE)
  /\ UNCHANGED <<gc_cons_threshold, Vgc_cons_percentage, bytes_since_gc,
                 bytes_between_gc, live_bytes, nonTriggerVars>>

\* garbage_collect, as the trigger sees it: nothing when inhibited; otherwise
\* the sweep leaves `live' bytes in gcstat, bytes_since_gc is zeroed,
\* bytes_between_gc recomputed, and the float made for gc-elapsed is counted.
CollectInto(live, op, arg, ret) ==
  /\ IF gc_inhibited
       THEN UNCHANGED <<live_bytes, bytes_since_gc, bytes_between_gc>>
       ELSE /\ live_bytes' = live
            /\ bytes_since_gc' = sizeof_Lisp_Float
            /\ bytes_between_gc' =
                 update_bytes_between_gc(gc_cons_threshold,
                                         Vgc_cons_percentage, live)
  /\ trigger_last' = Last(op, arg, ret, ~gc_inhibited)
  /\ UNCHANGED <<gc_cons_threshold, Vgc_cons_percentage, gc_inhibited,
                 nonTriggerVars>>

GarbageCollect(live) == CollectInto(live, "garbage_collect", Qnil, Qnil)

\* Fgarbage_collect_maybe (factor).
GarbageCollectMaybe(fact, live) ==
  IF fact >= 1 /\ bytes_since_gc > bytes_between_gc \div fact
    THEN CollectInto(live, "garbage_collect_maybe", LispInt(fact), Qt)
    ELSE /\ trigger_last' =
              Last("garbage_collect_maybe", LispInt(fact), Qnil, FALSE)
         /\ UNCHANGED <<gc_cons_threshold, Vgc_cons_percentage,
                        bytes_since_gc, bytes_between_gc, gc_inhibited,
                        live_bytes, nonTriggerVars>>

TriggerNext ==
  \/ \E v \in ThresholdInputs : WatchGcConsThreshold(v)
  \/ \E v \in ThresholdInputs : StoreGcConsThreshold(v)
  \/ \E v \in PercentageInputs : WatchGcConsPercentage(v)
  \/ \E v \in PercentageInputs : StoreGcConsPercentage(v)
  \/ \E n \in AllocInputs : Allocate(n)
  \/ InhibitGarbageCollection
  \/ AllowGarbageCollection
  \/ \E l \in LiveInputs : GarbageCollect(l)
  \/ \E f \in 0..2, l \in LiveInputs : GarbageCollectMaybe(f, l)

(***************************************************************************)
(* Properties of the collection trigger.                                   *)
(***************************************************************************)
\* threshold1 of update_bytes_between_gc for the current state, written out.
PercentageBytes ==
  IF Vgc_cons_percentage[1] = "float"
    THEN IF Vgc_cons_percentage[2] >= 0
           THEN (Vgc_cons_percentage[2] * live_bytes) \div 10
           ELSE -(((-Vgc_cons_percentage[2]) * live_bytes) \div 10)
    ELSE gc_cons_threshold

TriggerIsLooser ==
  /\ bytes_between_gc >= gc_cons_threshold
  /\ bytes_between_gc >= PercentageBytes
  /\ bytes_between_gc \in {gc_cons_threshold, PercentageBytes}

C21_AsClaimed ==
  trigger_last.op = "garbage_collect_maybe"
    => (trigger_last.ret # Qnil <=> trigger_last.ran)

(***************************************************************************)
(* The cons heap: Fcons, free_cons, the marking of conses from the root     *)
(* variables and sweep_conses.                                             *)
(***************************************************************************)
\* The conses of a block (scaled down from the source's), the blocks
\* lisp_align_malloc can supply before memory is full, the number of
\* staticpro'd variables, and the conses the program makes in a run.
BLOCK_NCONS == 2
MaxConsBlocks == 3
NStatics == 1
MaxConsed == 5

\* A cell is named by its address: block b holds the cells
\* (b - 1) * BLOCK_NCONS + 1 .. b * BLOCK_NCONS.
ConsCells == 1..(MaxConsBlocks * BLOCK_NCONS)
CellAt(b, i) == (b - 1) * BLOCK_NCONS + i + 1
CONS_BLOCK(c) == ((c - 1) \div BLOCK_NCONS) + 1
CONS_INDEX(c) == (c - 1) % BLOCK_NCONS

\* Lisp_Object values of this part, and what the union u of a free cell
\* holds instead of a cdr.
Cons(c) == <<"cons", c>>
CONSP(v) == v[1] = "cons"
dead_object == <<"dead">>
Chain(ptr) == <<"chain", ptr>>
\* Storage lisp_align_malloc has returned and nothing has written.
Uninitialized == [car |-> <<"uninitialized">>, cdr |-> <<"uninitialized">>]

\* Mutant: the cdr of a cons is not pushed on the mark stack.
process_mark_stack_car_only(marked, stk, obj) ==
  marked \cup (IF CONSP(obj) THEN {obj[2]} ELSE {})
\* process_mark_stack at its label mark_obj: marked is the set of cells whose
\* mark bit is set, stk the mark stack above base_sp, obj the object in hand.
RECURSIVE process_mark_stack(_, _, _)
process_mark_stack(marked, stk, obj) ==
  IF CONSP(obj) /\ obj[2] \notin marked
    THEN process_mark_stack(
           marked \cup {obj[2]},
           IF cons_cells[obj[2]].cdr # Qnil
             THEN Append(stk, cons_cells[obj[2]].cdr) ELSE stk,
           cons_cells[obj[2]].car)
    ELSE IF stk = <<>> THEN marked
         ELSE process_mark_stack(marked, SubSeq(stk, 1, Len(stk) - 1),
                                 stk[Len(stk)])

\* mark_object (obj): push obj, process the stack down to where it was.
mark_object(marked, obj) == process_mark_stack(marked, <<>>, obj)

\* mark_most_objects, from staticvec[i] on.
RECURSIVE mark_most_objects(_, _)
mark_most_objects(marked, i) ==
  IF i > NStatics THEN marked
  ELSE mark_most_objects(mark_object(marked, staticvec[i]), i + 1)

\* Mutant: XUNMARK_CONS leaves the bit set.
XUNMARK_CONS_not(marks, cell) == marks
\* XUNMARK_CONS (fptr): the mark bits with the bit of the cell cleared.
XUNMARK_CONS(marks, cell) == marks \ {cell}

\* The inner loops of sweep_conses over one block: positions pos .. lim - 1.
\* (The source reads the mark bits a word at a time; a word of set bits
\* counts its cells as used, as the cell by cell branch does.)
RECURSIVE SweepBlock(_, _, _, _, _)
SweepBlock(s, marked, b, pos, lim) ==
  IF pos >= lim THEN s
  ELSE IF CellAt(b, pos) \notin marked
    THEN SweepBlock([s EXCEPT !.this_free = @ + 1,
                              !.cells[CellAt(b, pos)] =
                                 [car |-> dead_object, cdr |-> Chain(s.free)],
                              !.free = CellAt(b, pos)],
                    marked, b, pos + 1, lim)
    ELSE SweepBlock([s EXCEPT !.num_used = @ + 1,
                              !.marks = XUNMARK_CONS(@, CellAt(b, pos))],
                    marked, b, pos + 1, lim)

\* Mutant: a block of free conses is given back however few are free.
ReleaseBlockEagerly(this_free, num_free) == this_free = BLOCK_NCONS
\* "this_free == BLOCK_NCONS && num_free > BLOCK_NCONS".
ReleaseBlock(this_free, num_free) ==
  this_free = BLOCK_NCONS /\ num_free > BLOCK_NCONS

\* The outer loop of sweep_conses over the blocks still to visit.
RECURSIVE SweepBlocks(_, _, _, _)
SweepBlocks(s, marked, blocks, lim) ==
  LET b == Head(blocks)
      Decide(r) ==
        IF ReleaseBlock(r.this_free, r.num_free)
          THEN [r EXCEPT !.free = r.cells[CellAt(b, 0)].cdr[2],
                         !.cells = [c \in ConsCells |->
                                      IF CONS_BLOCK(c) = b THEN Uninitialized
                                      ELSE r.cells[c]]]
          ELSE [r EXCEPT !.num_free = @ + r.this_free,
                         !.kept = Append(@, b)]
  IN IF blocks = <<>> THEN s
     ELSE SweepBlocks(
            Decide(SweepBlock([s EXCEPT !.this_free = 0], marked, b, 0, lim)),
            marked, Tail(blocks), BLOCK_NCONS)

\* Mutant: the first block is swept to its end like the others.
sweep_conses_to_the_end(marked) ==
  SweepBlocks([cells |-> cons_cells, free |-> NULL, this_free |-> 0,
               num_free |-> 0, num_used |-> 0, kept |-> <<>>,
               marks |-> marked],
              marked, cons_block, BLOCK_NCONS)

\* sweep_conses, given the mark bits.
sweep_conses(marked) ==
  SweepBlocks([cells |-> cons_cells, free |-> NULL, this_free |-> 0,
               num_free |-> 0, num_used |-> 0, kept |-> <<>>,
               marks |-> marked],
              marked, cons_block, cons_block_index)

HeapInit ==
  /\ cons_cells = [c \in ConsCells |-> Uninitialized]
  /\ cons_gcmarkbits = {}
  /\ cons_block = <<>>
  /\ cons_block_index = BLOCK_NCONS
  /\ cons_free_list = NULL
  /\ staticvec = [i \in 1..NStatics |-> Qnil]
  /\ gcstat = [total_conses |-> 0, total_free_conses |-> 0]
  /\ cons_cells_consed = 0
  /\ heap_last = [op |-> "init", cell |-> NULL]

\* Mutant: the cell handed out stays at the head of the free list.
FreeListAfterPopSame(cell) == cell
\* Mutant: the free list is dropped when a cell is taken from it.
FreeListAfterPopEmpty(cell) == NULL
\* "cons_free_list = cons_free_list->u.s.u.chain".
FreeListAfterPop(cell) == cons_cells[cell].cdr[2]

\* val = Fcons (car, cdr), and the store of val into the staticpro'd variable
\* dest.  (bytes_since_gc, which nothing here reads, is left to the trigger
\* model.)
Fcons(car, cdr, dest) ==
  LET fromFree == cons_free_list # NULL
      newBlock == cons_free_list = NULL /\ cons_block_index = BLOCK_NCONS
      b == IF newBlock
             THEN CHOOSE x \in 1..MaxConsBlocks :
                    /\ \A k \in 1..Len(cons_block) : cons_block[k] # x
                    /\ \A y \in 1..(x - 1) :
                         \E k \in 1..Len(cons_block) : cons_block[k] = y
             ELSE Head(cons_block)
      val == IF fromFree THEN cons_free_list
             ELSE CellAt(b, IF newBlock THEN 0 ELSE cons_block_index)
  IN /\ newBlock => Len(cons_block) < MaxConsBlocks
     /\ cons_cells_consed < MaxConsed
     /\ cons_cells_consed' = cons_cells_consed + 1
     /\ cons_free_list' = IF fromFree THEN FreeListAfterPop(cons_free_list)
                                      ELSE NULL
     /\ cons_block' = IF newBlock THEN <<b>> \o cons_block ELSE cons_block
     /\ cons_block_index' = IF fromFree THEN cons_block_index
                            ELSE IF newBlock THEN 1 ELSE cons_block_index + 1
     /\ cons_cells' = [cons_cells EXCEPT ![val] = [car |-> car, cdr |-> cdr]]
     /\ cons_gcmarkbits' = IF newBlock
                             THEN {c \in cons_gcmarkbits : CONS_BLOCK(c) # b}
                           ELSE cons_gcmarkbits
     /\ staticvec' = [staticvec EXCEPT ![dest] = Cons(val)]
     /\ heap_last' = [op |-> "Fcons", cell |-> val]
     /\ UNCHANGED <<gcstat, nonHeapVars>>

\* free_cons (ptr).
free_cons(ptr) ==
  /\ cons_cells' = [cons_cells EXCEPT ![ptr] =
                      [car |-> dead_object, cdr |-> Chain(cons_free_list)]]
  /\ cons_free_list' = ptr
  /\ heap_last' = [op |-> "free_cons", cell |-> ptr]
  /\ UNCHANGED <<cons_gcmarkbits, cons_block, cons_block_index, staticvec,
                 gcstat, cons_cells_consed, nonHeapVars>>

\* XSETCDR (c, v) by the program, and its assignment to a staticpro'd
\* variable.
Setcdr(c, v) ==
  /\ cons_cells' = [cons_cells EXCEPT ![c].cdr = v]
  /\ heap_last' = [op |-> "set", cell |-> NULL]
  /\ UNCHANGED <<cons_gcmarkbits, cons_block, cons_block_index,
                 cons_free_list, staticvec, gcstat, cons_cells_consed,
                 nonHeapVars>>
SetStatic(i, v) ==
  /\ staticvec[i] # v
  /\ staticvec' = [staticvec EXCEPT ![i] = v]
  /\ heap_last' = [op |-> "set", cell |-> NULL]
  /\ UNCHANGED <<cons_cells, cons_gcmarkbits, cons_block, cons_block_index,
                 cons_free_list, gcstat, cons_cells_consed, nonHeapVars>>

\* garbage_collect, as far as conses go: mark_most_objects, then gc_sweep's
\* sweep_conses.
HeapAfterSweep(s) ==
  /\ cons_cells' = s.cells
  /\ cons_gcmarkbits' = s.marks
  /\ cons_block' = s.kept
  /\ cons_free_list' = s.free
  /\ gcstat' = [total_conses |-> s.num_used, total_free_conses |-> s.num_free]
  /\ heap_last' = [op |-> "garbage_collect", cell |-> NULL]
  /\ UNCHANGED <<cons_block_index, staticvec, cons_cells_consed, nonHeapVars>>
GarbageCollectConses ==
  HeapAfterSweep(sweep_conses(mark_most_objects(cons_gcmarkbits, 1)))

\* What is reachable from the staticpro'd variables, by the definition of
\* reachability rather than by the marking code.
RECURSIVE ReachFrom(_)
ReachFrom(seen) ==
  LET more == {v[2] : v \in {w \in {cons_cells[c].car : c \in seen}
                                   \cup {cons_cells[c].cdr : c \in seen}
                                   \cup {staticvec[i] : i \in 1..NStatics} :
                               w[1] = "cons"}}
  IN IF more \subseteq seen THEN seen ELSE ReachFrom(seen \cup more)
Reachable == ReachFrom({})

\* The cells on the free list, in order, as far as the chain can be followed
\* without meeting a cell twice.
RECURSIVE FreeListFrom(_, _)
FreeListFrom(ptr, acc) ==
  IF ptr = NULL \/ \E k \in 1..Len(acc) : acc[k] = ptr THEN acc
  ELSE FreeListFrom(IF cons_cells[ptr].cdr[1] = "chain"
                      THEN cons_cells[ptr].cdr[2] ELSE NULL,
                    Append(acc, ptr))
FreeCells == {FreeListFrom(cons_free_list, <<>>)[k] :
                k \in 1..Len(FreeListFrom(cons_free_list, <<>>))}

\* The cells Fcons has handed out that are neither freed nor swept.
AllocatedCells ==
  {c \in ConsCells :
     /\ \E k \in 1..Len(cons_block) : cons_block[k] = CONS_BLOCK(c)
     /\ CONS_BLOCK(c) = Head(cons_block) => CONS_INDEX(c) < cons_block_index
     /\ c \notin FreeCells}

\* The values the program has at hand: nil and the contents of a staticpro'd
\* variable; the conses these are; and the car and cdr of those conses.
AtHand ==
  {Qnil} \cup {staticvec[i] : i \in 1..NStatics}
RootConses == {v[2] : v \in {w \in AtHand : w[1] = "cons"}}
Popped == {cons_cells[c].car : c \in RootConses}
            \cup {cons_cells[c].cdr : c \in RootConses}

\* The program's steps: it conses onto what a variable holds, by the cdr or
\* by the car, frees a cons it has dropped, closes a cycle, pops or clears
\* a variable, and collects.
HeapNext ==
  \/ \E v \in AtHand \ {Qnil}, dest \in 1..NStatics : Fcons(Qnil, v, dest)
  \/ \E v \in AtHand, dest \in 1..NStatics : Fcons(v, Qnil, dest)
  \/ \E ptr \in AllocatedCells \ Reachable : free_cons(ptr)
  \/ \E c \in RootConses, v \in AtHand \ {Qnil} : Setcdr(c, v)
  \/ \E i \in 1..NStatics, v \in {Qnil} \cup Popped : SetStatic(i, v)
  \/ GarbageCollectConses

FreeListSound ==
  /\ LET last == FreeListFrom(cons_free_list, <<>>)
     IN last = <<>> \/ cons_cells[last[Len(last)]].cdr = Chain(NULL)
  /\ cons_free_list = NULL => FreeCells = {}
  /\ \A c \in FreeCells :
       /\ c \notin Reachable
       /\ \E k \in 1..Len(cons_block) : cons_block[k] = CONS_BLOCK(c)
       /\ CONS_BLOCK(c) = Head(cons_block) => CONS_INDEX(c) < cons_block_index

Min(a, b) == IF a <= b THEN a ELSE b

EntirelyFreeBlocks ==
  {b \in {cons_block[k] : k \in 1..Len(cons_block)} :
     /\ \A i \in 0..(BLOCK_NCONS - 1) : CellAt(b, i) \notin Reachable
     /\ b = Head(cons_block) => cons_block_index = BLOCK_NCONS}

\* C25 as the claim states it: a sweep keeps at least the first two
\* entirely free blocks.
C25_AsClaimed ==
  [][heap_last'.op = "garbage_collect"
       => Cardinality(EntirelyFreeBlocks
                        \cap {cons_block'[k] : k \in 1..Len(cons_block')})
            >= Min(2, Cardinality(EntirelyFreeBlocks))]_vars

sizeof_Lisp_Cons == 16
Lisp_Cons == 3
offsetof_cdr == 8

\* Mutant: the car of the cons is not looked at.
live_cons_holding_any_car(b, offset) ==
  IF /\ 0 <= offset /\ offset < BLOCK_NCONS * sizeof_Lisp_Cons
     /\ \/ b # Head(cons_block)
        \/ offset \div sizeof_Lisp_Cons < cons_block_index
     /\ offset % sizeof_Lisp_Cons \in {Lisp_Cons, 0, offsetof_cdr}
    THEN CellAt(b, offset \div sizeof_Lisp_Cons)
  ELSE NULL

\* live_cons_holding (m, p) for the node m of cons block b and the address
\* p at offset bytes from &b->conses[0]: the cons it returns, or NULL.
live_cons_holding(b, offset) ==
  IF /\ 0 <= offset /\ offset < BLOCK_NCONS * sizeof_Lisp_Cons
     /\ \/ b # Head(cons_block)
        \/ offset \div sizeof_Lisp_Cons < cons_block_index
    THEN LET off == offset % sizeof_Lisp_Cons
             s == CellAt(b, offset \div sizeof_Lisp_Cons)
         IN IF off \in {Lisp_Cons, 0, offsetof_cdr}
                 /\ cons_cells[s].car # dead_object
              THEN s
            ELSE NULL
  ELSE NULL

\* The addresses tried: every byte of the conses of a block, the byte
\* before them and the byte after them.
ConsOffsets == (0 - 1)..(BLOCK_NCONS * sizeof_Lisp_Cons)
\* Whether the cons of block b that holds the byte at offset is on the free
\* list, whose cells are free, or not yet carved from the current block.
ConsSlotUnused(free, b, offset) ==
  \/ CellAt(b, offset \div sizeof_Lisp_Cons) \in free
  \/ b = Head(cons_block) /\ offset \div sizeof_Lisp_Cons >= cons_block_index

RECURSIVE process_mark_stack_counted(_, _, _)
process_mark_stack_counted(r, stk, obj) ==
  IF CONSP(obj) /\ obj[2] \notin r.marked
    THEN process_mark_stack_counted(
           [r EXCEPT !.marked = @ \cup {obj[2]}, !.sets[obj[2]] = @ + 1],
           IF cons_cells[obj[2]].cdr # Qnil
             THEN Append(stk, cons_cells[obj[2]].cdr) ELSE stk,
           cons_cells[obj[2]].car)
    ELSE IF stk = <<>> THEN [r EXCEPT !.sp = Len(stk)]
         ELSE process_mark_stack_counted(r, SubSeq(stk, 1, Len(stk) - 1),
                                         stk[Len(stk)])

\* mark_most_objects from staticvec[i] on, with the same record.
RECURSIVE mark_most_objects_counted(_, _)
mark_most_objects_counted(r, i) ==
  IF i > NStatics THEN r
  ELSE mark_most_objects_counted(
         process_mark_stack_counted(r, <<>>, staticvec[i]), i + 1)

\* The marking of a collection that starts in this state.
MarkRun ==
  mark_most_objects_counted(
    [marked |-> {}, sets |-> [c \in ConsCells |-> 0], sp |-> 0], 1)

\* The conses met by following cdrs from the conses the program has at hand.
RECURSIVE CdrTails(_)
CdrTails(seen) ==
  LET more == {v[2] : v \in {w \in {cons_cells[c].cdr : c \in seen} :
                               w[1] = "cons"}}
  IN IF more \subseteq seen THEN seen ELSE CdrTails(seen \cup more)

\* The program's steps on lists: it conses onto the list a variable holds,
\* sets the cdr of one of the list's conses (which can close a ring), pops
\* or clears the variable, and collects.
RingNext ==
  \/ \E v \in AtHand, dest \in 1..NStatics : Fcons(Qnil, v, dest)
  \/ \E c \in CdrTails(RootConses), v \in AtHand : Setcdr(c, v)
  \/ \E i \in 1..NStatics, v \in {Qnil} \cup Popped : SetStatic(i, v)
  \/ GarbageCollectConses

\* The cells met by following cdrs from cell c, c itself not counted unless
\* the cdrs lead back to it.
RECURSIVE CdrOrbit(_, _)
CdrOrbit(c, seen) ==
  LET next == IF cons_cells[c].cdr[1] = "cons"
                THEN {cons_cells[c].cdr[2]} ELSE {}
  IN IF next \subseteq seen THEN seen
     ELSE CdrOrbit(cons_cells[c].cdr[2], seen \cup next)

\* The rings: for a cell whose cdrs lead back to it, the cells of its ring.
Rings == {CdrOrbit(c, {}) : c \in {d \in AllocatedCells : d \in CdrOrbit(d, {})}}

\* C11: marking terminates on rings.  For every ring of conses reachable
\* from a root, the marking of a collection ends with the mark stack back at
\* its base and has set the mark bit of each cell of the ring exactly once;
\* the sweep that follows counts every reachable cons as live, the N+1 of the
\* ring among them, leaves the ring's cells as they were and puts none of
\* them on the free list.
C11_RingMarkedOnceAndKept ==
  [][heap_last'.op = "garbage_collect"
       => /\ MarkRun.marked = mark_most_objects({}, 1)
          /\ \A R \in Rings :
               R \subseteq Reachable
                 => /\ MarkRun.sp = 0
                    /\ \A c \in R : MarkRun.sets[c] = 1
                    /\ \A c \in R : /\ cons_cells'[c] = cons_cells[c]
                                    /\ c \notin FreeCells'
                                    /\ c \in AllocatedCells'
                    /\ gcstat'.total_conses = Cardinality(Reachable)
                    /\ gcstat'.total_conses >= Cardinality(R)]_vars

\* A state of C11: a collection has returned with a ring of three or more
\* conses reachable, all of them counted.
C11_Witness ==
  /\ heap_last.op = "garbage_collect"
  /\ \E R \in Rings : /\ Cardinality(R) >= 3
                      /\ R \subseteq Reachable
                      /\ gcstat.total_conses >= Cardinality(R)
                      /\ gcstat.total_free_conses >= 1

(***************************************************************************)
(* Finalizers and the counts of two successive collections.                 *)
(*                                                                         *)
(* The objects are finalizers (pseudovectors), conses that serve as the    *)
(* finalizers' functions, and floats.  The roots are staticpro'd variables *)
(* and Vgc_elapsed.  The mark bits are part of the state: the sweep clears *)
(* them.                                                                   *)
(***************************************************************************)
\* The finalizers, function conses and floats the heap has room for, and the
\* staticpro'd variables of this part.
MaxFinalizers == 2
MaxFnConses == 2
MaxFloats == 3
NFinStatics == 2

FinIds == 1..MaxFinalizers
FnConsIds == 1..MaxFnConses
FloatIds == 1..MaxFloats
Finalizer(f) == <<"finalizer", f>>
FloatObj(x) == <<"floatobj", x>>
Qignore == <<"symbol", "ignore">>

\* The objects process_mark_stack goes on to from obj: the function of a
\* finalizer (the one Lisp slot of the pseudovector), the car of a cons.
Children(obj) ==
  IF obj[1] = "finalizer" THEN <<fin_objs[obj[2]].function>>
  ELSE IF obj[1] = "cons" THEN <<fn_conses[obj[2]].car>>
  ELSE <<>>

\* mark_object (obj) with the mark bits marked: the objects marked when the
\* mark stack is empty again.  A symbol of lispsym is marked by
\* mark_most_objects and an object already marked is not entered.
RECURSIVE mark_objects(_, _)
mark_objects(marked, stk) ==
  IF stk = <<>> THEN marked
  ELSE IF Head(stk)[1] = "symbol" \/ Head(stk) \in marked
         THEN mark_objects(marked, Tail(stk))
  ELSE mark_objects(marked \cup {Head(stk)}, Children(Head(stk)) \o Tail(stk))

\* The finalizers of list src that queue_doomed_finalizers moves: those not
\* marked whose function is not nil; and those it leaves.
Doomed(marked, src) ==
  SelectSeq(src, LAMBDA f : /\ Finalizer(f) \notin marked
                            /\ fin_objs[f].function # Qnil)
NotDoomed(marked, src) ==
  SelectSeq(src, LAMBDA f : ~ (/\ Finalizer(f) \notin marked
                               /\ fin_objs[f].function # Qnil))

\* mark_finalizer_list (head): every finalizer of the list is marked, and
\* its function with all it references.
RECURSIVE mark_finalizer_list(_, _)
mark_finalizer_list(marked, list) ==
  IF list = <<>> THEN marked
  ELSE mark_finalizer_list(
         mark_objects(marked \cup {Finalizer(Head(list))},
                      <<fin_objs[Head(list)].function>>),
         Tail(list))

\* Mutant: the sweep leaves the mark bits of the objects it keeps.
MarkBitsLeftSet(marked) == marked

\* The mark bits after the sweep: XUNMARK_VECTOR, XUNMARK_CONS and
\* XFLOAT_UNMARK have cleared the bit of every object kept.
MarkBitsAfterSweep(marked) == {}

\* make_float: the float cell handed out when the floats in use are used.
make_float(used) == CHOOSE x \in FloatIds \ used : \A y \in FloatIds \ used : x <= y

FinInit ==
  /\ fin_objs = [f \in FinIds |-> [allocated |-> FALSE, function |-> Qnil]]
  /\ finalizers = <<>>
  /\ doomed_finalizers = <<>>
  /\ fn_conses = [c \in FnConsIds |-> [allocated |-> FALSE, car |-> Qnil]]
  /\ floats = {}
  /\ Vgc_elapsed = Qnil
  /\ fin_staticvec = [i \in 1..NFinStatics |-> Qnil]
  /\ fin_marked = {}
  /\ fin_gcstat = [total_conses |-> 0, total_vectors |-> 0, total_floats |-> 0]
  /\ fin_last = [op |-> "init", ran |-> 0, elapsed |-> Qnil, after |-> "init",
                 called |-> <<>>]

\* What the program has at hand: a symbol, and what its variables hold.
FinAtHand == {Qignore} \cup ({fin_staticvec[i] : i \in 1..NFinStatics} \ {Qnil})

FinLast(op, ran, elapsed) ==
  [op |-> op, ran |-> ran, elapsed |-> elapsed,
   after |-> IF fin_last.op = "garbage_collect" /\ fin_last.ran = 0
                  /\ fin_last.elapsed # Qnil
               THEN "quiet_collection"
             ELSE fin_last.op,
   called |-> <<>>]

\* Fmake_finalizer (function), the result stored in variable dest.  The new
\* finalizer is inserted before the head of finalizers, that is, last.
Fmake_finalizer(function, dest) ==
  /\ \E f \in FinIds : ~ fin_objs[f].allocated
  /\ LET f == CHOOSE f \in FinIds :
                /\ ~ fin_objs[f].allocated
                /\ \A g \in FinIds : ~ fin_objs[g].allocated => f <= g
     IN /\ fin_objs' = [fin_objs EXCEPT ![f] = [allocated |-> TRUE,
                                                function |-> function]]
        /\ finalizers' = Append(finalizers, f)
        /\ fin_staticvec' = [fin_staticvec EXCEPT ![dest] = Finalizer(f)]
  /\ fin_last' = FinLast("make_finalizer", 0, Vgc_elapsed)
  /\ UNCHANGED <<doomed_finalizers, fn_conses, floats, Vgc_elapsed,
                 fin_marked, fin_gcstat, nonFinVars>>

\* Fcons (car, Qnil) of a function for a finalizer, stored in variable dest.
FnCons(car, dest) ==
  /\ \E c \in FnConsIds : ~ fn_conses[c].allocated
  /\ LET c == CHOOSE c \in FnConsIds :
                /\ ~ fn_conses[c].allocated
                /\ \A d \in FnConsIds : ~ fn_conses[d].allocated => c <= d
     IN /\ fn_conses' = [fn_conses EXCEPT ![c] = [allocated |-> TRUE,
                                                  car |-> car]]
        /\ fin_staticvec' = [fin_staticvec EXCEPT ![dest] = Cons(c)]
  /\ fin_last' = FinLast("Fcons", 0, Vgc_elapsed)
  /\ UNCHANGED <<fin_objs, finalizers, doomed_finalizers, floats, Vgc_elapsed,
                 fin_marked, fin_gcstat, nonFinVars>>

\* The program sets a staticpro'd variable to nil.
FinDrop(i) ==
  /\ fin_staticvec[i] # Qnil
  /\ fin_staticvec' = [fin_staticvec EXCEPT ![i] = Qnil]
  /\ fin_last' = FinLast("setq", 0, Vgc_elapsed)
  /\ UNCHANGED <<fin_objs, finalizers, doomed_finalizers, fn_conses, floats,
                 Vgc_elapsed, fin_marked, fin_gcstat, nonFinVars>>

\* Mutant: run_finalizers calls each function twice.
RECURSIVE run_finalizers_twice(_, _)
run_finalizers_twice(objs, list) ==
  LET f == Head(list)
      rest == run_finalizers_twice([objs EXCEPT ![f].function = Qnil],
                                   Tail(list))
  IN IF list = <<>> THEN [objs |-> objs, called |-> <<>>]
     ELSE IF objs[f].function = Qnil THEN rest
     ELSE [objs |-> rest.objs,
           called |-> <<<<f, objs[f].function>>, <<f, objs[f].function>>>>
                        \o rest.called]

\* run_finalizers (list) with the finalizers objs: each finalizer of the
\* list is unchained, and one with a function has it taken out and called.
\* The result is the finalizers afterwards and the calls made, in order.
RECURSIVE run_finalizers(_, _)
run_finalizers(objs, list) ==
  LET f == Head(list)
      rest == run_finalizers([objs EXCEPT ![f].function = Qnil], Tail(list))
  IN IF list = <<>> THEN [objs |-> objs, called |-> <<>>]
     ELSE IF objs[f].function = Qnil THEN rest
     ELSE [objs |-> rest.objs,
           called |-> <<<<f, objs[f].function>>>> \o rest.called]

\* garbage_collect: the roots are marked; the finalizers that are not marked
\* and have a function are moved to doomed_finalizers and marked there; the
\* sweep frees what is not marked (a finalizer freed is unchained by
\* free_by_pvtype), counts what is, and clears the marks; run_finalizers
\* unchains every doomed finalizer and takes its function out; Vgc_elapsed
\* gets a new float, for which there is memory.
GarbageCollectFinalizers ==
  LET roots == [i \in 1..NFinStatics |-> fin_staticvec[i]] \o <<Vgc_elapsed>>
      m1 == mark_objects(fin_marked, roots)
      doomed == doomed_finalizers \o Doomed(m1, finalizers)
      m2 == mark_finalizer_list(m1, doomed)
      keptFin == {f \in FinIds : fin_objs[f].allocated /\ Finalizer(f) \in m2}
      keptCons == {c \in FnConsIds : fn_conses[c].allocated /\ Cons(c) \in m2}
      keptFloats == {x \in floats : FloatObj(x) \in m2}
      swept == [f \in FinIds |->
                  IF f \notin keptFin
                    THEN [allocated |-> FALSE, function |-> Qnil]
                  ELSE fin_objs[f]]
      run == run_finalizers(swept, doomed)
      ran == Len(run.called)
  IN /\ keptFloats # FloatIds
     /\ fin_objs' = run.objs
     /\ finalizers' = SelectSeq(NotDoomed(m1, finalizers),
                                LAMBDA f : f \in keptFin)
     /\ doomed_finalizers' = <<>>
     /\ fn_conses' = [c \in FnConsIds |->
                        IF c \in keptCons THEN fn_conses[c]
                        ELSE [allocated |-> FALSE, car |-> Qnil]]
     /\ floats' = keptFloats \cup {make_float(keptFloats)}
     /\ Vgc_elapsed' = FloatObj(make_float(keptFloats))
     /\ fin_marked' = MarkBitsAfterSweep(m2)
     /\ fin_gcstat' = [total_conses |-> Cardinality(keptCons),
                       total_vectors |-> Cardinality(keptFin),
                       total_floats |-> Cardinality(keptFloats)]
     /\ fin_last' = [FinLast("garbage_collect", ran, Vgc_elapsed)
                       EXCEPT !.called = run.called]
     /\ UNCHANGED <<fin_staticvec, nonFinVars>>

FinNext ==
  \/ \E fn \in {v \in FinAtHand : v[1] \in {"symbol", "cons"}},
        dest \in 1..NFinStatics : Fmake_finalizer(fn, dest)
  \/ \E car \in {Qnil} \cup {v \in FinAtHand : v[1] = "finalizer"},
        dest \in 1..NFinStatics : FnCons(car, dest)
  \/ \E i \in 1..NFinStatics : FinDrop(i)
  \/ GarbageCollectFinalizers

RECURSIVE FinClosure(_)
FinClosure(S) ==
  LET more == {o \in UNION {{Children(p)[k] : k \in 1..Len(Children(p))} :
                            p \in S} : o[1] # "symbol"}
  IN IF more \subseteq S THEN S ELSE FinClosure(S \cup more)

\* The objects reachable from the roots: the staticpro'd variables and
\* Vgc_elapsed.
FinReachable ==
  FinClosure(({fin_staticvec[i] : i \in 1..NFinStatics} \cup {Vgc_elapsed})
               \ {Qnil, Qignore})

\* The calls run_finalizers has made of functions of finalizer f in the last
\* operation.
FinCalls(f, last) == {k \in 1..Len(last.called) : last.called[k][1] = f}

\* C19: a finalizer that is unreachable from the roots at a collection and
\* has a function is taken off the live list, is still allocated after the
\* sweep, and has that function called exactly once by the collection, the
\* doomed list being empty again afterwards; a reachable finalizer is not
\* run and stays as it is; a finalizer without a function is not run, a
\* finalizer that has been run has no function any more, and no operation
\* but a collection calls a function or gives an allocated finalizer one, so
\* no function is called twice.
C19_DoomedFinalizerRunOnce ==
  [][/\ fin_last'.op = "garbage_collect"
          => /\ doomed_finalizers' = <<>>
             /\ \A f \in FinIds :
                  /\ (/\ fin_objs[f].allocated
                      /\ fin_objs[f].function # Qnil
                      /\ Finalizer(f) \notin FinReachable)
                       => /\ Cardinality(FinCalls(f, fin_last')) = 1
                          /\ \A k \in FinCalls(f, fin_last') :
                               fin_last'.called[k][2] = fin_objs[f].function
                          /\ fin_objs'[f] = [allocated |-> TRUE,
                                             function |-> Qnil]
                          /\ \A k \in 1..Len(finalizers') : finalizers'[k] # f
                  /\ Finalizer(f) \in FinReachable
                       => /\ FinCalls(f, fin_last') = {}
                          /\ fin_objs'[f] = fin_objs[f]
                          /\ \E k \in 1..Len(finalizers') : finalizers'[k] = f
                  /\ fin_objs[f].function = Qnil
                       => FinCalls(f, fin_last') = {}
     /\ fin_last'.op # "garbage_collect"
          => /\ fin_last'.called = <<>>
             /\ doomed_finalizers' = doomed_finalizers
             /\ \A f \in FinIds :
                  fin_objs[f].allocated => fin_objs'[f] = fin_objs[f]]_vars

\* A state of C19: a collection has run the function, a cons, of one
\* finalizer, which is still allocated and off the live list, and has left
\* alone another finalizer, which a variable holds.
C19_Witness ==
  /\ fin_last.op = "garbage_collect"
  /\ Len(fin_last.called) = 1
  /\ fin_last.called[1][2][1] = "cons"
  /\ fin_objs[fin_last.called[1][1]] = [allocated |-> TRUE, function |-> Qnil]
  /\ \E g \in FinIds : /\ g # fin_last.called[1][1]
                       /\ fin_objs[g].function # Qnil
                       /\ Finalizer(g) \in FinReachable
                       /\ finalizers = <<g>>

(***************************************************************************)
(* Strings: Lisp_String headers, sdata in sblocks, compaction.             *)
(*                                                                         *)
(* The memory of an sblock is an array of cells, addressed from b->data.   *)
(* A pointer and a ptrdiff_t take SDATA_DATA_OFFSET cells each (the value  *)
(* in the first, Hi in the others); a byte of string data takes one.       *)
(* GC_CHECK_STRING_BYTES and GC_CHECK_STRING_OVERRUN are not defined, so   *)
(* GC_STRING_EXTRA is 0 and the nbytes of a free sdata overlays its data.  *)
(***************************************************************************)
\* The sizes of the source, scaled down so that, as there, LARGE_STRING_BYTES
\* and SDATA_DATA_OFFSET are multiples of the alignment of an sdata.
SDATA_DATA_OFFSET == 2
sizeof_sdata == 4
sdata_align == 2
LARGE_STRING_BYTES == 2
SBLOCK_SIZE == 14
sblock_data_offset == 4

\* The Lisp_String headers and the sblocks there is memory for.
MaxStrings == 2
MaxSblocks == 3

StrIds == 1..MaxStrings
SblockIds == 1..MaxSblocks
Junk == <<"junk">>
Hi == <<"hi">>
StringPtr(s) == <<"string", s>>
NBytes(n) == <<"nbytes", n>>
Byte(v) == <<"byte", v>>
\* The null data pointer of a header on string_free_list.
NullData == <<NULL, NULL>>
FreeString == [data |-> NullData, size |-> 0, size_byte |-> 0]

sdata_size(n) ==
  LET unaligned_size == Max(SDATA_DATA_OFFSET + n + 1, sizeof_sdata)
  IN ((unaligned_size + sdata_align - 1) \div sdata_align) * sdata_align

\* STRING_BYTES (s) of a header s.
STRING_BYTES(s) == IF s.size_byte < 0 THEN s.size ELSE s.size_byte

\* memcpy and memmove to offset off of cells, and the n cells read at off.
WriteCells(cells, off, seq) ==
  [k \in 1..Len(cells) |->
     IF k - 1 >= off /\ k - 1 < off + Len(seq) THEN seq[k - off] ELSE cells[k]]
ReadCells(cells, off, n) == [k \in 1..n |-> cells[off + k]]

\* The string heap as one record, for the functions that change it.
StringHeap ==
  [strings |-> strings, mem |-> sblock_mem, next_free |-> sblock_next_free,
   small |-> small_sblocks, large |-> large_sblocks]

UnusedSblocks(h) ==
  SblockIds \ ({h.small[k] : k \in 1..Len(h.small)}
                 \cup {h.large[k] : k \in 1..Len(h.large)})

\* Whether allocate_string_data calls lisp_malloc for a new sblock.
NeedsSblock(h, nbytes, immovable) ==
  \/ nbytes > LARGE_STRING_BYTES
  \/ immovable
  \/ h.small = <<>>
  \/ SBLOCK_SIZE < (sblock_data_offset + h.next_free[h.small[Len(h.small)]])
                     + sdata_size(nbytes)

\* allocate_string_data (s, nchars, nbytes, false, immovable).
allocate_string_data(h, s, nchars, nbytes, immovable) ==
  LET Set(b, data, cells, dedicated, fresh) ==
        [strings |-> [h.strings EXCEPT ![s] =
                        [data |-> <<b, data + SDATA_DATA_OFFSET>>,
                         size |-> nchars, size_byte |-> nbytes]],
         mem |-> [h.mem EXCEPT ![b] =
                    WriteCells(WriteCells(cells, data, <<StringPtr(s), Hi>>),
                               data + SDATA_DATA_OFFSET + nbytes, <<Byte(0)>>)],
         next_free |-> [h.next_free EXCEPT ![b] = data + sdata_size(nbytes)],
         small |-> IF fresh /\ ~ dedicated THEN Append(h.small, b) ELSE h.small,
         large |-> IF dedicated THEN <<b>> \o h.large ELSE h.large]
      New(b, dedicated) ==
        Set(b, 0,
            [k \in 1..(IF dedicated THEN sdata_size(nbytes)
                       ELSE SBLOCK_SIZE - sblock_data_offset) |-> Junk],
            dedicated, TRUE)
      Current(b) == Set(b, h.next_free[b], h.mem[b], FALSE, FALSE)
  IN IF NeedsSblock(h, nbytes, immovable)
       THEN New(CHOOSE b \in UnusedSblocks(h) :
                  \A d \in UnusedSblocks(h) : b <= d,
                nbytes > LARGE_STRING_BYTES \/ immovable)
     ELSE Current(h.small[Len(h.small)])

\* Mutant: the back pointer is set to null and no length is recorded.
FreeSdataNoLength(mem, data, nbytes) ==
  [mem EXCEPT ![data[1]] =
     WriteCells(@, data[2] - SDATA_DATA_OFFSET, <<StringPtr(NULL)>>)]

\* old_sdata->string = NULL and SDATA_NBYTES (old_sdata) = nbytes for the
\* sdata that holds the data at address data.  (The bytes that stay behind
\* in a free sdata are not read again; they are kept as Junk.)
FreeSdata(mem, data, nbytes) ==
  [mem EXCEPT ![data[1]] =
     WriteCells(@, data[2] - SDATA_DATA_OFFSET,
                <<StringPtr(NULL), Hi, NBytes(nbytes), Hi>>
                  \o [k \in 1..(sdata_size(nbytes) - sizeof_sdata) |-> Junk])]

\* The bytes of a character of clen bytes stored in string s: a lead byte
\* and a trailing byte if it has two.
CharBytes(s, clen) ==
  IF clen = 1 THEN <<Byte(10 * s)>> ELSE <<Byte(100 + s), Byte(200 + s)>>
CharLen(byte) == IF byte[2] >= 100 THEN 2 ELSE 1

StringInit ==
  /\ strings = [s \in StrIds |-> FreeString]
  /\ sblock_mem = [b \in SblockIds |-> <<>>]
  /\ sblock_next_free = [b \in SblockIds |-> 0]
  /\ small_sblocks = <<>>
  /\ large_sblocks = <<>>
  /\ str_roots = {}
  /\ str_last = [op |-> "init", s |-> 0, cidx_byte |-> 0, moved |-> 0,
                 eassert |-> TRUE, to_le_from |-> TRUE]

StoreStringHeap(h) ==
  /\ strings' = h.strings
  /\ sblock_mem' = h.mem
  /\ sblock_next_free' = h.next_free
  /\ small_sblocks' = h.small
  /\ large_sblocks' = h.large

\* make_unibyte_string and make_multibyte_string: a string of nchars
\* characters, the first of first bytes and the others of one, which the
\* program keeps.  A unibyte string gets size_byte -1 (STRING_SET_UNIBYTE).
MakeString(nchars, first, multibyte) ==
  /\ \E s \in StrIds : strings[s].data = NullData
  /\ NeedsSblock(StringHeap, nchars - 1 + first, FALSE)
       => UnusedSblocks(StringHeap) # {}
  /\ LET s == CHOOSE s \in StrIds :
                /\ strings[s].data = NullData
                /\ \A t \in StrIds : strings[t].data = NullData => s <= t
         Fill(h) ==
           [h EXCEPT
              !.mem[h.strings[s].data[1]] =
                 WriteCells(@, h.strings[s].data[2],
                            CharBytes(s, first)
                              \o [k \in 1..(nchars - 1) |-> Byte(10 * s + k)]),
              !.strings[s].size_byte = IF multibyte THEN @ ELSE -1]
     IN /\ StoreStringHeap(Fill(allocate_string_data(
                                  StringHeap, s, nchars, nchars - 1 + first,
                                  FALSE)))
        /\ str_roots' = str_roots \cup {s}
  /\ str_last' = [op |-> "make_string", s |-> 0, cidx_byte |-> 0,
                  moved |-> 0,
                  eassert |-> TRUE, to_le_from |-> TRUE]
  /\ UNCHANGED nonStringVars

\* Mutant: the bytes before the character are not copied.
BytesBeforeLost(cells, off, cidx_byte) == [k \in 1..cidx_byte |-> Junk]

\* The cidx_byte bytes memcpy (new_data, data, cidx_byte) reads at data.
BytesBefore(cells, off, cidx_byte) == ReadCells(cells, off, cidx_byte)

\* resize_string_data (string, cidx_byte, clen, new_clen) for a character of
\* a multibyte string, of clen bytes, replaced by one of the other length,
\* and the caller's store of the new character at the address returned.
ResizeStringData(s, cidx_byte) ==
  /\ s \in str_roots
  /\ strings[s].data # NullData
  /\ strings[s].size_byte >= 0
  /\ cidx_byte < strings[s].size_byte
  /\ sblock_mem[strings[s].data[1]][strings[s].data[2] + cidx_byte + 1][2]
       < 200
  /\ LET data == strings[s].data
         nbytes == strings[s].size_byte
         InPlace(clen, new_clen) ==
           [StringHeap EXCEPT
              !.strings[s].size_byte = nbytes + (new_clen - clen),
              !.mem[data[1]] =
                 WriteCells(
                   WriteCells(@, data[2] + cidx_byte + new_clen,
                              ReadCells(@, data[2] + cidx_byte + clen,
                                        nbytes - (cidx_byte + (clen - 1)))),
                   data[2] + cidx_byte, CharBytes(s, new_clen))]
         Moved(h, clen, new_clen) ==
           [h EXCEPT
              !.mem = FreeSdata(
                        [h.mem EXCEPT ![h.strings[s].data[1]] =
                           WriteCells(
                             WriteCells(
                               WriteCells(
                                 @,
                                 h.strings[s].data[2] + cidx_byte + new_clen,
                                 ReadCells(h.mem[data[1]],
                                           data[2] + cidx_byte + clen,
                                           nbytes - (cidx_byte + clen))),
                               h.strings[s].data[2],
                               BytesBefore(h.mem[data[1]], data[2],
                                           cidx_byte)),
                             h.strings[s].data[2] + cidx_byte,
                             CharBytes(s, new_clen))],
                        data, nbytes)]
         Resize(clen, new_clen) ==
           IF sdata_size(nbytes) = sdata_size(nbytes + (new_clen - clen))
             THEN StoreStringHeap(InPlace(clen, new_clen))
           ELSE /\ NeedsSblock(StringHeap, nbytes + (new_clen - clen), FALSE)
                     => UnusedSblocks(StringHeap) # {}
                /\ StoreStringHeap(
                     Moved(allocate_string_data(
                             StringHeap, s, strings[s].size,
                             nbytes + (new_clen - clen), FALSE),
                           clen, new_clen))
     IN Resize(CharLen(sblock_mem[data[1]][data[2] + cidx_byte + 1]),
               3 - CharLen(sblock_mem[data[1]][data[2] + cidx_byte + 1]))
  /\ str_last' = [op |-> "resize_string_data", s |-> s,
                  cidx_byte |-> cidx_byte, moved |-> 0,
                  eassert |-> TRUE, to_le_from |-> TRUE]
  /\ UNCHANGED <<str_roots, nonStringVars>>

\* pin_string (string) for a unibyte string.
PinString(s) ==
  /\ s \in str_roots
  /\ strings[s].data # NullData
  /\ strings[s].size_byte < 0
  /\ LET size == STRING_BYTES(strings[s])
         data == strings[s].data
         Repin(h) ==
           [h EXCEPT
              !.mem = FreeSdata(
                        [h.mem EXCEPT ![h.strings[s].data[1]] =
                           WriteCells(@, h.strings[s].data[2],
                                      ReadCells(h.mem[data[1]], data[2],
                                                size))],
                        data, size),
              !.strings[s].size_byte = -3]
     IN IF ~ (size > LARGE_STRING_BYTES \/ strings[s].size_byte = -3)
          THEN /\ UnusedSblocks(StringHeap) # {}
               /\ StoreStringHeap(
                    Repin(allocate_string_data(StringHeap, s, size, size,
                                               TRUE)))
        ELSE StoreStringHeap(
               [StringHeap EXCEPT !.strings[s].size_byte = -3])
  /\ str_last' = [op |-> "pin_string", s |-> s, cidx_byte |-> 0, moved |-> 0,
                  eassert |-> TRUE, to_le_from |-> TRUE]
  /\ UNCHANGED <<str_roots, nonStringVars>>

\* The program drops its reference to string s.
StringDrop(s) ==
  /\ s \in str_roots
  /\ str_roots' = str_roots \ {s}
  /\ str_last' = [op |-> "drop", s |-> s, cidx_byte |-> 0, moved |-> 0,
                  eassert |-> TRUE, to_le_from |-> TRUE]
  /\ UNCHANGED <<strings, sblock_mem, sblock_next_free, small_sblocks,
                 large_sblocks, nonStringVars>>

\* sweep_strings, the loop over the headers from header s on: a string in
\* use that is not marked has its size saved in its sdata, the sdata's back
\* pointer and its own data pointer set to null.
RECURSIVE sweep_strings(_, _, _)
sweep_strings(h, marked, s) ==
  IF s > MaxStrings THEN h
  ELSE IF h.strings[s].data # NullData /\ s \notin marked
    THEN sweep_strings(
           [h EXCEPT !.mem = FreeSdata(@, h.strings[s].data,
                                       STRING_BYTES(h.strings[s])),
                     !.strings[s] = FreeString],
           marked, s + 1)
  ELSE sweep_strings(h, marked, s + 1)

\* free_large_strings: the sblocks of large_sblocks whose first sdata has a
\* null back pointer are freed.
free_large_strings(h) ==
  LET Dead(b) == h.mem[b][1] = StringPtr(NULL)
  IN [h EXCEPT
        !.large = SelectSeq(@, LAMBDA b : ~ Dead(b)),
        !.mem = [b \in SblockIds |->
                   IF (\E k \in 1..Len(h.large) : h.large[k] = b) /\ Dead(b)
                     THEN <<>> ELSE @[b]],
        !.next_free = [b \in SblockIds |->
                   IF (\E k \in 1..Len(h.large) : h.large[k] = b) /\ Dead(b)
                     THEN 0 ELSE @[b]]]

\* Mutant: the string's data pointer is left where it was.
DataAfterMoveStale(old, tb, to) == old

\* to->string->u.s.data = SDATA_DATA (to) after the memmove.
DataAfterMove(old, tb, to) == <<tb, to + SDATA_DATA_OFFSET>>

\* compact_small_strings, from the sdata at from of the block at place bi of
\* the list: c holds the heap, the place tbi of the block copied to, the
\* offset to in it, the end of the block read, the number of sdata moved,
\* whether eassert (nbytes <= LARGE_STRING_BYTES) has held, and whether
\* every copy has found the sdata copied to at or before the one copied
\* from, which with from != to is eassert (tb != b || to < from).
RECURSIVE CompactLoop(_, _, _)
CompactLoop(c, bi, from) ==
  IF bi > Len(c.small) THEN c
  ELSE IF from >= c.end
    THEN CompactLoop([c EXCEPT !.end = IF bi < Len(c.small)
                                         THEN c.next_free[c.small[bi + 1]]
                                       ELSE 0],
                     bi + 1, 0)
  ELSE
    LET b == c.small[bi]
        s == c.mem[b][from + 1][2]
        nbytes == IF s # NULL THEN STRING_BYTES(c.strings[s])
                  ELSE c.mem[b][from + SDATA_DATA_OFFSET + 1][2]
        Copy(tbi, to, nf, size) ==
          LET Put(tb, mem1) ==
                [c EXCEPT
                   !.mem = mem1,
                   !.strings =
                      IF tb # b \/ to # from
                        THEN [c.strings EXCEPT ![mem1[tb][to + 1][2]].data =
                                DataAfterMove(@, tb, to)]
                      ELSE c.strings,
                   !.next_free = nf,
                   !.tbi = tbi,
                   !.to = to + size,
                   !.moved = IF tb # b \/ to # from THEN @ + 1 ELSE @,
                   !.eassert = @ /\ nbytes <= LARGE_STRING_BYTES,
                   !.to_le_from = @ /\ (tbi < bi \/ (tbi = bi /\ to <= from))]
          IN Put(c.small[tbi],
                 IF c.small[tbi] # b \/ to # from
                   THEN [c.mem EXCEPT ![c.small[tbi]] =
                           WriteCells(@, to, ReadCells(c.mem[b], from, size))]
                 ELSE c.mem)
        Next(size) ==
          IF s = NULL
            THEN [c EXCEPT !.eassert = @ /\ nbytes <= LARGE_STRING_BYTES]
          ELSE IF sblock_data_offset + c.to + size > SBLOCK_SIZE
            THEN Copy(c.tbi + 1, 0,
                      [c.next_free EXCEPT ![c.small[c.tbi]] = c.to], size)
          ELSE Copy(c.tbi, c.to, c.next_free, size)
    IN CompactLoop(Next(sdata_size(nbytes)), bi, from + sdata_size(nbytes))

\* Mutant: the sblocks after tb stay on the list.
SblocksWithTail(small, tbi) == small

\* The list from oldest_sblock after tb->next = NULL, tb the block at place
\* tbi of it.
SblocksUpToTb(small, tbi) == SubSeq(small, 1, tbi)

\* compact_small_strings: the loop, then the sblocks after the last one
\* copied to are freed and that one becomes current_sblock.  (What is left
\* beyond next_free of an sblock is not read again; it is kept as Junk.)
compact_small_strings(h) ==
  IF h.small = <<>>
    THEN [strings |-> h.strings, mem |-> h.mem, next_free |-> h.next_free,
          small |-> h.small, large |-> h.large, moved |-> 0,
          eassert |-> TRUE, to_le_from |-> TRUE]
  ELSE
    LET Finish(c) ==
          [strings |-> c.strings,
           mem |-> [b \in SblockIds |->
                      IF \E k \in (c.tbi + 1)..Len(c.small) : c.small[k] = b
                        THEN <<>>
                      ELSE IF \E k \in 1..c.tbi : c.small[k] = b
                        THEN [k \in 1..Len(c.mem[b]) |->
                                IF k > (IF b = c.small[c.tbi] THEN c.to
                                        ELSE c.next_free[b])
                                  THEN Junk ELSE c.mem[b][k]]
                      ELSE c.mem[b]],
           next_free |-> [b \in SblockIds |->
                      IF \E k \in (c.tbi + 1)..Len(c.small) : c.small[k] = b
                        THEN 0
                      ELSE IF b = c.small[c.tbi] THEN c.to
                      ELSE c.next_free[b]],
           small |-> SblocksUpToTb(c.small, c.tbi),
           large |-> c.large,
           moved |-> c.moved,
           eassert |-> c.eassert,
           to_le_from |-> c.to_le_from]
    IN Finish(CompactLoop(
                [strings |-> h.strings, mem |-> h.mem,
                 next_free |-> h.next_free, small |-> h.small,
                 large |-> h.large, tbi |-> 1, to |-> 0,
                 end |-> h.next_free[h.small[1]], moved |-> 0,
                 eassert |-> TRUE, to_le_from |-> TRUE],
                1, 0))

\* garbage_collect for strings: the strings the program refers to are
\* marked, and sweep_strings frees the others, then calls
\* free_large_strings and compact_small_strings.
GarbageCollectStrings ==
  LET Store(h) ==
        /\ StoreStringHeap(h)
        /\ str_last' = [op |-> "garbage_collect", s |-> 0, cidx_byte |-> 0,
                        moved |-> h.moved, eassert |-> h.eassert,
                        to_le_from |-> h.to_le_from]
  IN /\ Store(compact_small_strings(
                free_large_strings(sweep_strings(StringHeap, str_roots, 1))))
     /\ UNCHANGED <<str_roots, nonStringVars>>

StringNext ==
  \/ \E nchars \in 1..(LARGE_STRING_BYTES + 1) : MakeString(nchars, 1, FALSE)
  \/ \E nchars \in 1..LARGE_STRING_BYTES, first \in 1..2 :
       MakeString(nchars, first, TRUE)
  \/ \E s \in StrIds, cidx_byte \in 0..LARGE_STRING_BYTES :
       ResizeStringData(s, cidx_byte)
  \/ \E s \in StrIds : PinString(s)
  \/ \E s \in StrIds : StringDrop(s)
  \/ GarbageCollectStrings

(***************************************************************************)
(* Properties of strings.                                                  *)
(***************************************************************************)
\* The string data of header s, with the terminating null byte.
Payload(s) ==
  ReadCells(sblock_mem[strings[s].data[1]], strings[s].data[2],
            STRING_BYTES(strings[s]) + 1)
InSmallSblock(s) ==
  \E k \in 1..Len(small_sblocks) : small_sblocks[k] = strings[s].data[1]
InLargeSblock(s) ==
  /\ \E k \in 1..Len(large_sblocks) : large_sblocks[k] = strings[s].data[1]
  /\ strings[s].data[2] = SDATA_DATA_OFFSET

\* C5: compact_small_strings preserves every live small string: a string
\* with its data in a shared sblock that is live after the sweep has the
\* same byte length and the same payload bytes after the collection as
\* before, and its data pointer then points, below next_free of a shared
\* sblock, at a payload whose back pointer names that string.
C5_CompactionPreservesStrings ==
  [][str_last'.op = "garbage_collect"
       => \A s \in StrIds :
            (strings[s].data # NullData /\ strings'[s].data # NullData
               /\ InSmallSblock(s))
              => /\ STRING_BYTES(strings'[s]) = STRING_BYTES(strings[s])
                 /\ Payload(s)' = Payload(s)
                 /\ InSmallSblock(s)'
                 /\ sblock_mem'[strings'[s].data[1]][
                      strings'[s].data[2] - SDATA_DATA_OFFSET + 1]
                      = StringPtr(s)
                 /\ strings'[s].data[2] - SDATA_DATA_OFFSET
                      + sdata_size(STRING_BYTES(strings'[s]))
                      <= sblock_next_free'[strings'[s].data[1]]]_vars

\* A state of C5: a collection has moved the data of two strings, one of
\* them into an older sblock, and freed the sblock it left.
C5_Witness ==
  /\ str_last.op = "garbage_collect"
  /\ str_last.moved >= 2
  /\ Len(small_sblocks) = 1
  /\ Cardinality({s \in StrIds : strings[s].data # NullData}) >= 2
  /\ Cardinality(UnusedSblocks(StringHeap)) = MaxSblocks - 1

\* C6 as the claim states it: a live string of more than
\* LARGE_STRING_BYTES bytes, or pinned, has its data at the start of an
\* sblock of large_sblocks; an unpinned one of at most LARGE_STRING_BYTES
\* bytes has it in a shared sblock; and a collection leaves the data pointer
\* of a large or pinned string where it was.
C6_AsClaimed ==
  [][/\ \A s \in StrIds :
          strings'[s].data # NullData
            => IF STRING_BYTES(strings'[s]) > LARGE_STRING_BYTES
                    \/ strings'[s].size_byte = -3
                 THEN InLargeSblock(s)'
               ELSE InSmallSblock(s)'
     /\ str_last'.op = "garbage_collect"
          => \A s \in StrIds :
               (/\ strings[s].data # NullData
                /\ strings'[s].data # NullData
                /\ \/ STRING_BYTES(strings[s]) > LARGE_STRING_BYTES
                   \/ strings[s].size_byte = -3)
                 => strings'[s].data = strings[s].data]_vars

\* The place of the sblock of string s on the list from oldest_sblock, and
\* whether the sdata of s comes before the sdata of t in the order
\* compact_small_strings steps through them.
SblockPlace(s) ==
  CHOOSE k \in 1..Len(small_sblocks) : small_sblocks[k] = strings[s].data[1]
SdataBefore(s, t) ==
  \/ SblockPlace(s) < SblockPlace(t)
  \/ /\ SblockPlace(s) = SblockPlace(t)
     /\ strings[s].data[2] < strings[t].data[2]
\* The end of the last sdata of a live string in sblock b, as an offset from
\* b->data; 0 if there is none.
LiveEnd(b) ==
  LET ends == {strings[s].data[2] - SDATA_DATA_OFFSET
                 + sdata_size(STRING_BYTES(strings[s])) :
               s \in {t \in StrIds : strings[t].data[1] = b}}
  IN IF ends = {} THEN 0 ELSE CHOOSE e \in ends : \A d \in ends : d <= e

\* C28: in compact_small_strings the sdata copied to is never after the one
\* copied from (so to < from when they differ within one sblock), the live
\* strings of the shared sblocks keep their relative order, and afterwards
\* the list from oldest_sblock is the part of the old one up to the last
\* sblock copied to, every sblock after it is freed, next_free of that
\* sblock is the end of the last sdata copied to it, and it is
\* current_sblock, the last of the list.
C28_CompactionOrderAndTail ==
  [][(str_last'.op = "garbage_collect" /\ small_sblocks # <<>>)
       => /\ str_last'.to_le_from
          /\ \A s, t \in StrIds :
               (/\ strings'[s].data # NullData /\ strings'[t].data # NullData
                /\ InSmallSblock(s) /\ InSmallSblock(t))
                 => (SdataBefore(s, t) <=> SdataBefore(s, t)')
          /\ Len(small_sblocks') \in 1..Len(small_sblocks)
          /\ small_sblocks' = SubSeq(small_sblocks, 1, Len(small_sblocks'))
          /\ \A k \in (Len(small_sblocks') + 1)..Len(small_sblocks) :
               /\ small_sblocks[k] \in UnusedSblocks(StringHeap)'
               /\ \A s \in StrIds : strings'[s].data[1] # small_sblocks[k]
          /\ \A tb \in SblockIds :
               tb = small_sblocks'[Len(small_sblocks')]
                 => /\ sblock_next_free'[tb] = LiveEnd(tb)'
                    /\ Len(small_sblocks') > 1 => LiveEnd(tb)' > 0]_vars

\* A state of C28: a collection has moved an sdata towards the start of its
\* sblock and, that sblock being full, has left the next live sdata in the
\* sblock after it.
C28_Witness ==
  /\ str_last.op = "garbage_collect"
  /\ str_last.moved >= 1
  /\ Len(small_sblocks) = 2
  /\ \E s, t \in StrIds :
       /\ strings[s].data # NullData /\ strings[t].data # NullData
       /\ InSmallSblock(s) /\ InSmallSblock(t)
       /\ SblockPlace(s) < SblockPlace(t)
       /\ strings[s].data[2] = SDATA_DATA_OFFSET

\* C29: resize_string_data leaves the data of the string where it is when
\* sdata_size of the old and of the new byte length are equal; otherwise the
\* string gets a new sdata whose back pointer names it, and the old sdata
\* gets a null back pointer and the old byte length.  In both cases the
\* bytes before the character and those after it are the ones that were
\* there, a null byte ends the data, the byte length of the string becomes
\* the new one and its number of characters stays.
C29_ResizeStringData ==
  [][\A s \in StrIds, cidx_byte \in 0..LARGE_STRING_BYTES :
       (/\ str_last'.op = "resize_string_data"
        /\ str_last'.s = s
        /\ str_last'.cidx_byte = cidx_byte)
         => LET data == strings[s].data
                new_data == strings'[s].data
                nbytes == strings[s].size_byte
                clen == CharLen(sblock_mem[data[1]][data[2] + cidx_byte + 1])
                new_clen == 3 - clen
                new_nbytes == nbytes + (new_clen - clen)
            IN /\ strings'[s].size_byte = new_nbytes
               /\ strings'[s].size = strings[s].size
               /\ IF sdata_size(nbytes) = sdata_size(new_nbytes)
                    THEN new_data = data
                  ELSE /\ new_data # data
                       /\ sblock_mem'[new_data[1]][
                            new_data[2] - SDATA_DATA_OFFSET + 1] = StringPtr(s)
                       /\ sblock_mem'[data[1]][
                            data[2] - SDATA_DATA_OFFSET + 1] = StringPtr(NULL)
                       /\ sblock_mem'[data[1]][data[2] + 1] = NBytes(nbytes)
               /\ ReadCells(sblock_mem'[new_data[1]], new_data[2], cidx_byte)
                    = ReadCells(sblock_mem[data[1]], data[2], cidx_byte)
               /\ ReadCells(sblock_mem'[new_data[1]],
                            new_data[2] + cidx_byte + new_clen,
                            nbytes - (cidx_byte + clen))
                    = ReadCells(sblock_mem[data[1]],
                                data[2] + cidx_byte + clen,
                                nbytes - (cidx_byte + clen))
               /\ sblock_mem'[new_data[1]][new_data[2] + new_nbytes + 1]
                    = Byte(0)]_vars

\* A state of C29: a character after the first of a string has been
\* replaced by a longer one, and the string has got a new sdata and left
\* its old one free.
C29_Witness ==
  /\ str_last.op = "resize_string_data"
  /\ str_last.cidx_byte >= 1
  /\ strings[str_last.s].size_byte = LARGE_STRING_BYTES + 2
  /\ \E b \in SblockIds :
       /\ sblock_mem[b] # <<>>
       /\ sblock_mem[b][1] = StringPtr(NULL)
       /\ sblock_mem[b][SDATA_DATA_OFFSET + 1] = NBytes(LARGE_STRING_BYTES + 1)

\* SDATA_OF_STRING (s) of a live string, as an offset from b->data.
SDATA_OF_STRING(s) == strings[s].data[2] - SDATA_DATA_OFFSET
LiveStrings == {s \in StrIds : strings[s].data # NullData}

\* Whether stepping from the sdata at off of shared sblock b, by the length
\* of the string a back pointer names or by the length a free sdata
\* carries, visits only sdata that are one or the other and ends at
\* b->next_free.
RECURSIVE SdataSteps(_, _)
SdataSteps(b, off) ==
  IF off >= sblock_next_free[b] THEN off = sblock_next_free[b]
  ELSE LET string == sblock_mem[b][off + 1]
           nbytes == sblock_mem[b][off + SDATA_DATA_OFFSET + 1]
       IN IF string = StringPtr(NULL)
            THEN /\ nbytes[1] = "nbytes"
                 /\ SdataSteps(b, off + sdata_size(nbytes[2]))
          ELSE /\ string[1] = "string"
               /\ string[2] \in LiveStrings
               /\ strings[string[2]].data = <<b, off + SDATA_DATA_OFFSET>>
               /\ SdataSteps(
                    b, off + sdata_size(STRING_BYTES(strings[string[2]])))

\* C30: after any allocations of strings, resize_string_data, pin_string
\* and collections, the sdata of every live string points back at it, no
\* two live strings have overlapping sdata, and every shared sblock can be
\* stepped through from its first sdata to next_free, every sdata with a
\* null back pointer carrying the byte length that leads to the next one.
C30_SdataInvariant ==
  /\ \A s \in LiveStrings :
       sblock_mem[strings[s].data[1]][SDATA_OF_STRING(s) + 1] = StringPtr(s)
  /\ \A s, t \in LiveStrings :
       (s # t /\ strings[s].data[1] = strings[t].data[1])
         => \/ SDATA_OF_STRING(s) + sdata_size(STRING_BYTES(strings[s]))
                 <= SDATA_OF_STRING(t)
            \/ SDATA_OF_STRING(t) + sdata_size(STRING_BYTES(strings[t]))
                 <= SDATA_OF_STRING(s)
  /\ \A k \in 1..Len(small_sblocks) : SdataSteps(small_sblocks[k], 0)

\* A state of C30: a shared sblock holds a free sdata followed by the sdata
\* of a live string, after a string in it was resized or pinned.
C30_Witness ==
  /\ str_last.op \in {"resize_string_data", "pin_string"}
  /\ \E s \in LiveStrings :
       /\ InSmallSblock(s)
       /\ SDATA_OF_STRING(s) > 0
       /\ sblock_mem[strings[s].data[1]][1] = StringPtr(NULL)

\* The assertion of compact_small_strings, eassert (nbytes <=
\* LARGE_STRING_BYTES), holds whenever it is reached.
CompactSmallStringsAssertion == str_last.eassert

(***************************************************************************)
(* Weak hash tables.                                                       *)
(*                                                                         *)
(* Weak tables, each key-weak or value-weak and each referenced by a       *)
(* staticpro'd variable, hold entries whose keys and values are objects    *)
(* without slots.  sweep_weak_table is not in alloc.c; it is modelled from *)
(* the specification: an entry survives when the side its table is weak on *)
(* is marked; a surviving entry has its other side marked, and an entry    *)
(* that does not survive when the passes end is removed.                   *)
(***************************************************************************)
\* The objects there is memory for, the weak tables, and the entries a
\* table has room for.
MaxWeakObjects == 3
NWeakTables == 2
MaxWeakEntries == 2

WeakObjIds == 1..MaxWeakObjects
WeakTableIds == 1..NWeakTables

\* Whether entry e of a table of weakness weak survives with the objects
\* marked: its key is marked in a key-weak table, its value in a value-weak
\* one.
WeakEntrySurvives(weak, e, marked) ==
  IF weak = "key" THEN e[1] \in marked ELSE e[2] \in marked

\* sweep_weak_table (h, false) over the entries of h from place i on, with
\* the objects marked so far: r holds the objects marked and whether this
\* pass has marked any.
RECURSIVE sweep_weak_table_mark(_, _, _)
sweep_weak_table_mark(r, h, i) ==
  IF i > Len(h.entries) THEN r
  ELSE IF /\ WeakEntrySurvives(h.weak, h.entries[i], r.marked)
          /\ ~ ({h.entries[i][1], h.entries[i][2]} \subseteq r.marked)
    THEN sweep_weak_table_mark(
           [marked |-> r.marked \cup {h.entries[i][1], h.entries[i][2]},
            any |-> TRUE, passes |-> r.passes],
           h, i + 1)
  ELSE sweep_weak_table_mark(r, h, i + 1)

\* sweep_weak_table (h, true): the entries that do not survive are removed.
sweep_weak_table_remove(marked, h) ==
  [h EXCEPT !.entries =
     SelectSeq(@, LAMBDA e : WeakEntrySurvives(h.weak, e, marked))]

\* for (h = weak_hash_tables; h; h = h->next_weak)
\*   marked |= sweep_weak_table (h, false);
RECURSIVE WeakPass(_, _, _)
WeakPass(r, list, tables) ==
  IF list = <<>> THEN r
  ELSE WeakPass(sweep_weak_table_mark(r, tables[Head(list)], 1),
                Tail(list), tables)

\* Mutant: one pass over the weak tables and no more.
MarkWeakTablesOnce(marked, passes, list, tables) ==
  WeakPass([marked |-> marked, any |-> FALSE, passes |-> passes + 1],
           list, tables)

\* The do ... while (marked) loop of mark_and_sweep_weak_table_contents:
\* the objects marked when a pass over all the tables has marked nothing,
\* and the passes made.
RECURSIVE MarkWeakTables(_, _, _, _)
MarkWeakTables(marked, passes, list, tables) ==
  LET Again(r) == IF r.any
                    THEN MarkWeakTables(r.marked, r.passes, list, tables)
                  ELSE r
  IN Again(WeakPass([marked |-> marked, any |-> FALSE,
                     passes |-> passes + 1],
                    list, tables))

\* The list weak_hash_tables when marking has met the tables in the order
\* of the staticpro'd variables: each table met is put at the head.
RECURSIVE WeakList(_)
WeakList(order) ==
  IF order = <<>> THEN <<>> ELSE Append(WeakList(Tail(order)), Head(order))

WeakInit ==
  /\ weak_objects = {}
  /\ weak_roots = {}
  /\ weak_tables = <<>>
  /\ weak_staticvec = <<>>
  /\ weak_last = [op |-> "init", passes |-> 0]

\* The program makes a table of weakness weak and staticpro's it.
WeakMakeTable(weak) ==
  /\ Len(weak_tables) < NWeakTables
  /\ weak_tables' = Append(weak_tables, [weak |-> weak, entries |-> <<>>])
  /\ weak_staticvec' = Append(weak_staticvec, Len(weak_tables) + 1)
  /\ weak_last' = [op |-> "make_hash_table", passes |-> 0]
  /\ UNCHANGED <<weak_objects, weak_roots, nonWeakVars>>

\* The program makes an object and keeps a reference to it.
WeakMakeObject ==
  /\ weak_objects # WeakObjIds
  /\ LET o == CHOOSE o \in WeakObjIds \ weak_objects :
                \A p \in WeakObjIds \ weak_objects : o <= p
     IN /\ weak_objects' = weak_objects \cup {o}
        /\ weak_roots' = weak_roots \cup {o}
  /\ weak_last' = [op |-> "make", passes |-> 0]
  /\ UNCHANGED <<weak_tables, weak_staticvec, nonWeakVars>>

\* The program puts key -> value into table t; it refers to both.
WeakPuthash(t, key, value) ==
  /\ t \in DOMAIN weak_tables
  /\ key \in weak_roots
  /\ value \in weak_roots
  /\ Len(weak_tables[t].entries) < MaxWeakEntries
  /\ \A i \in 1..Len(weak_tables[t].entries) :
       weak_tables[t].entries[i][1] # key
  /\ weak_tables' =
       [weak_tables EXCEPT ![t].entries = Append(@, <<key, value>>)]
  /\ weak_last' = [op |-> "puthash", passes |-> 0]
  /\ UNCHANGED <<weak_objects, weak_roots, weak_staticvec, nonWeakVars>>

\* The program drops its reference to object o.
WeakDrop(o) ==
  /\ o \in weak_roots
  /\ weak_roots' = weak_roots \ {o}
  /\ weak_last' = [op |-> "drop", passes |-> 0]
  /\ UNCHANGED <<weak_objects, weak_tables, weak_staticvec, nonWeakVars>>

\* garbage_collect: the objects the program refers to are marked, and the
\* tables, which puts them on weak_hash_tables;
\* mark_and_sweep_weak_table_contents marks until nothing changes and then
\* removes entries; the sweep frees the objects not marked.
GarbageCollectWeak ==
  LET Sweep(r) ==
        /\ weak_tables' = [t \in DOMAIN weak_tables |->
                             sweep_weak_table_remove(r.marked, weak_tables[t])]
        /\ weak_objects' = weak_objects \cap r.marked
        /\ weak_last' = [op |-> "garbage_collect", passes |-> r.passes]
  IN /\ Sweep(MarkWeakTables(weak_roots, 0, WeakList(weak_staticvec),
                             weak_tables))
     /\ UNCHANGED <<weak_roots, weak_staticvec, nonWeakVars>>

WeakNext ==
  \/ \E weak \in {"key", "value"} : WeakMakeTable(weak)
  \/ WeakMakeObject
  \/ \E t \in WeakTableIds, key \in WeakObjIds, value \in WeakObjIds :
       WeakPuthash(t, key, value)
  \/ \E o \in WeakObjIds : WeakDrop(o)
  \/ GarbageCollectWeak

(***************************************************************************)
(* Properties of weak tables.                                              *)
(***************************************************************************)
\* The entries of table t.
WeakEntries(t) ==
  {weak_tables[t].entries[i] : i \in 1..Len(weak_tables[t].entries)}

\* The objects that survive by definition: those of S, and the keys and
\* values of the entries that survive with them.
RECURSIVE WeakClosure(_)
WeakClosure(S) ==
  LET more == UNION {{e[1], e[2]} : e \in
                UNION {{f \in WeakEntries(t) :
                          WeakEntrySurvives(weak_tables[t].weak, f, S)} :
                       t \in DOMAIN weak_tables}}
  IN IF more \subseteq S THEN S ELSE WeakClosure(S \cup more)

\* The chains: an entry of one table whose value is the key of an entry of
\* the other; <<a, e, b, f>> has e in table a, f in table b.
WeakChains ==
  {c \in WeakTableIds \X (WeakObjIds \X WeakObjIds)
           \X WeakTableIds \X (WeakObjIds \X WeakObjIds) :
     /\ {c[1], c[3]} \subseteq DOMAIN weak_tables
     /\ c[1] # c[3]
     /\ c[2] \in WeakEntries(c[1])
     /\ c[4] \in WeakEntries(c[3])
     /\ c[2][2] = c[4][1]}

\* C9 (as amended): for a chain of two weak tables in which the first
\* table's value is the second table's key, a collection keeps the chained
\* entry if and only if the side its table is weak on (the key in a key-weak
\* table, the value in a value-weak one) is marked when the marking passes
\* end, that is, if the program refers to that object or it belongs to an
\* entry of a weak table that itself survives; otherwise the entry is
\* removed.  The objects of a kept entry are not freed, and the outcome is
\* the same for either order of the tables on weak_hash_tables.
C9_ChainedEntryKeptIffWeakSideMarked ==
  [][weak_last'.op = "garbage_collect"
       => /\ \A c \in WeakChains :
               /\ (c[4] \in WeakEntries(c[3])'
                     <=> WeakEntrySurvives(weak_tables[c[3]].weak, c[4],
                                           WeakClosure(weak_roots)))
               /\ c[4] \in WeakEntries(c[3])'
                     => {c[4][1], c[4][2]} \subseteq weak_objects'
          /\ weak_objects' = weak_objects \cap WeakClosure(weak_roots)]_vars

\* A state of C9: a collection that needed a second marking pass has kept a
\* chained entry of a key-weak table whose key the program does not refer
\* to.
C9_Witness ==
  /\ weak_last.op = "garbage_collect"
  /\ weak_last.passes >= 3
  /\ \E c \in WeakChains : /\ weak_tables[c[3]].weak = "key"
                            /\ c[4][1] \notin weak_roots

\* C9 as the claim states it: the chained entry is kept if and only if the
\* program refers to its key by a path that is not weak.
C9_AsClaimed ==
  [][weak_last'.op = "garbage_collect"
       => \A c \in WeakChains :
            c[4] \in WeakEntries(c[3])' <=> c[4][1] \in weak_roots]_vars

(***************************************************************************)
(* Vectors: vector blocks, vector_free_lists, large_vectors.               *)
(*                                                                         *)
(* The memory of a vector block is an array of words.  The first word of   *)
(* a vector is its header; contents[0] of a free vector is the link of its *)
(* free list.  What the other words hold is not read by the allocator and  *)
(* is not kept.  Vectors here hold no references.                          *)
(***************************************************************************)
\* The sizes of the source in bytes, scaled down: VBLOCK_ALIGN is 1 << 12
\* there, and PTRDIFF_MAX and MOST_POSITIVE_FIXNUM are those of a ptrdiff_t
\* of 8 bits with the two tag bits of a fixnum taken off.
VBLOCK_ALIGN == 80
PTRDIFF_MAX == 127
MOST_POSITIVE_FIXNUM == 31
header_size == word_size
large_vector_contents_offset == word_size
VBLOCK_NBYTES == VBLOCK_ALIGN - word_size
LISP_VECTOR_MIN == header_size + word_size
LARGE_VECTOR_THRESH == (VBLOCK_NBYTES \div 2) - word_size
VBLOCK_NFREE_LISTS == 1 + (VBLOCK_NBYTES - LISP_VECTOR_MIN) \div word_size
VECTOR_ELTS_MAX ==
  Min((PTRDIFF_MAX - header_size - large_vector_contents_offset)
        \div word_size,
      MOST_POSITIVE_FIXNUM)

\* The vector blocks and the large vectors there is memory for, and the
\* vector cells the program allocates in a run.
MaxVectorBlocks == 2
MaxLargeVectors == 1
MaxVectorCells == 5

VBlockIds == 1..MaxVectorBlocks
VBlockWords == VBLOCK_NBYTES \div word_size
\* Pointers to vectors: into a vector block, to a large vector, null.
VPtr(b, off) == <<"vector", b, off>>
LargeVector(k) == <<"large", k, 0>>
NullVector == <<"null", NULL, NULL>>
\* A null run_vector (offset 0 is block->data).
NullRun == NULL - 1
\* The header of a vector: its size (of a free vector, its words after the
\* header) and whether its type is PVEC_FREE.
VHeader(size, free) == <<"header", size, free>>
VSlot == <<"slot">>
VNext(p) == <<"next", p>>
zero_vector == <<"pure", 0, 0>>
\* In place of a return value: memory_full was called and did not return.
memory_full_signal == <<"memory_full", 0, 0>>

\* The word of a block at byte offset off.
WordAt(off) == off \div word_size + 1

VINDEX(nbytes) == (nbytes - LISP_VECTOR_MIN) \div word_size

\* vectorlike_nbytes of the header at v: a free vector has its words in the
\* rest field of the pseudovector size, a plain vector in the size.
vector_nbytes(mem, v) == header_size + word_size * mem[v[2]][WordAt(v[3])][2]

\* next_vector (v).
next_vector(mem, v) == mem[v[2]][WordAt(v[3]) + 1][2]

\* The vector heap as one record, for the functions that change it.
VectorHeap ==
  [mem |-> vblock_mem, blocks |-> vector_blocks, lists |-> vector_free_lists,
   large |-> large_vectors]

\* n words of which nothing is known.
RECURSIVE VSlots(_)
VSlots(n) == IF n = 0 THEN <<>> ELSE <<VSlot>> \o VSlots(n - 1)

\* The words of a block after a vector of nbytes is written at offset off:
\* its header, then second in its first slot and nothing known of the rest.

WriteVector(words, off, nbytes, header, second) ==
  SubSeq(words, 1, WordAt(off) - 1)
    \o <<header, second>> \o VSlots(nbytes \div word_size - 2)
    \o SubSeq(words, WordAt(off + nbytes), VBlockWords)

\* Mutant: the vector goes on the free list of the next size.
add_vector_free_lists_next_size(h, v, nbytes) ==
  LET nwords == (nbytes - header_size) \div word_size
      vindex == Min(VINDEX(nbytes) + 1, VBLOCK_NFREE_LISTS - 1)
  IN [mem |-> [h.mem EXCEPT ![v[2]] =
                 WriteVector(h.mem[v[2]], v[3], nbytes, VHeader(nwords, TRUE),
                             VNext(h.lists[vindex + 1]))],
      blocks |-> h.blocks,
      lists |-> [h.lists EXCEPT ![vindex + 1] = v],
      large |-> h.large]

\* add_vector_free_lists (v, nbytes).
add_vector_free_lists(h, v, nbytes) ==
  LET nwords == (nbytes - header_size) \div word_size
      vindex == VINDEX(nbytes)
  IN [mem |-> [h.mem EXCEPT ![v[2]] =
                 WriteVector(h.mem[v[2]], v[3], nbytes, VHeader(nwords, TRUE),
                             VNext(h.lists[vindex + 1]))],
      blocks |-> h.blocks,
      lists |-> [h.lists EXCEPT ![vindex + 1] = v],
      large |-> h.large]

\* Mutant: only the free list of the exact size is looked at.
UsableIndexesExact(h, nbytes) ==
  {index \in {VINDEX(nbytes)} : h.lists[index + 1] # NullVector}

\* The indexes the loop of allocate_vectorlike stops at for nbytes: a free
\* list that has a vector, with no residual or one that can be a vector.
UsableIndexes(h, nbytes) ==
  {index \in VINDEX(nbytes)..(VBLOCK_NFREE_LISTS - 1) :
     LET restbytes == index * word_size + LISP_VECTOR_MIN - nbytes
     IN /\ restbytes = 0 \/ restbytes >= LISP_VECTOR_MIN
        /\ h.lists[index + 1] # NullVector}

\* allocate_vector_block: the block xmalloc returns, put at the head of
\* vector_blocks.  Nothing has written its words.
NewVectorBlock(h) ==
  CHOOSE b \in VBlockIds : /\ h.mem[b] = <<>>
                           /\ \A c \in VBlockIds : h.mem[c] = <<>> => b <= c

\* The part of allocate_vectorlike for nbytes <= LARGE_VECTOR_THRESH: the
\* heap afterwards and the vector p.
AllocateSmall(h, len, nbytes) ==
  LET usable == UsableIndexes(h, nbytes)
      index == CHOOSE i \in usable : \A j \in usable : i <= j
      b == NewVectorBlock(h)
      p == IF usable # {} THEN h.lists[index + 1] ELSE VPtr(b, 0)
      restbytes == IF usable # {}
                     THEN index * word_size + LISP_VECTOR_MIN - nbytes
                   ELSE VBLOCK_NBYTES - nbytes
      h1 == IF usable # {}
              THEN [h EXCEPT !.lists[index + 1] = next_vector(h.mem, p)]
            ELSE [h EXCEPT !.mem[b] = VSlots(VBlockWords),
                           !.blocks = <<b>> \o @]
      h2 == IF restbytes # 0
              THEN add_vector_free_lists(h1, VPtr(p[2], p[3] + nbytes),
                                    restbytes)
            ELSE h1
  IN [h |-> [h2 EXCEPT !.mem =
               [@ EXCEPT ![p[2]] =
                  WriteVector(h2.mem[p[2]], p[3], nbytes, VHeader(len, FALSE),
                              VSlot)]],
      p |-> p]

\* "ptrdiff_t nbytes = header_size + len * word_size": the values nbytes can
\* have.  When the sum does not fit a ptrdiff_t the behaviour is undefined,
\* and nbytes is taken to be any of: the sum wrapped, 0, PTRDIFF_MAX.
NBytesOf(len) ==
  IF header_size + len * word_size <= PTRDIFF_MAX
    THEN {header_size + len * word_size}
  ELSE {header_size + len * word_size - 2 * (PTRDIFF_MAX + 1), 0, PTRDIFF_MAX}

VectorInit ==
  /\ vector_blocks = <<>>
  /\ vblock_mem = [b \in VBlockIds |-> <<>>]
  /\ vector_free_lists = [i \in 1..VBLOCK_NFREE_LISTS |-> NullVector]
  /\ large_vectors = <<>>
  /\ vec_roots = {}
  /\ vec_gcstat = [total_vectors |-> 0, total_vector_slots |-> 0,
                   total_free_vector_slots |-> 0]
  /\ vector_cells_consed = 0
  /\ vec_bytes_since_gc = 0
  /\ vec_last = [op |-> "init", len |-> 0, ret |-> NullVector]

StoreVectorHeap(h) ==
  /\ vblock_mem' = h.mem
  /\ vector_blocks' = h.blocks
  /\ vector_free_lists' = h.lists
  /\ large_vectors' = h.large

\* Mutant: no limit on the length.
allocate_vectorlike_unlimited(len) ==
  IF len = 0 THEN zero_vector ELSE NullVector
\* The two tests allocate_vectorlike starts with: what it leaves with, and
\* NullVector when it goes on.  A len of 0 returns zero_vector; a len above
\* VECTOR_ELTS_MAX calls memory_full, which does not return.
allocate_vectorlike_early(len) ==
  IF len = 0 THEN zero_vector
  ELSE IF len > VECTOR_ELTS_MAX THEN memory_full_signal
  ELSE NullVector

\* p = allocate_vectorlike (len, q_clear), and the program keeps p.
allocate_vectorlike(len, nbytes) ==
  LET h == VectorHeap
      k == CHOOSE k \in 1..MaxLargeVectors :
             \A i \in 1..Len(h.large) : h.large[i].id # k
      small == AllocateSmall(h, len, nbytes)
      early == allocate_vectorlike_early(len)
  IN IF early # NullVector
       THEN /\ vec_last' = [op |-> "allocate_vectorlike", len |-> len,
                            ret |-> early]
            /\ UNCHANGED <<vector_blocks, vblock_mem, vector_free_lists,
                           large_vectors, vec_roots, vec_gcstat,
                           vector_cells_consed, vec_bytes_since_gc,
                           nonVectorVars>>
     ELSE /\ vector_cells_consed < MaxVectorCells
          /\ IF nbytes > LARGE_VECTOR_THRESH
               THEN /\ Len(h.large) < MaxLargeVectors
                    /\ StoreVectorHeap(
                         [h EXCEPT !.large = <<[id |-> k, size |-> len]>> \o @])
                    /\ vec_roots' = vec_roots \cup {LargeVector(k)}
                    /\ vec_last' = [op |-> "allocate_vectorlike", len |-> len,
                                    ret |-> LargeVector(k)]
             ELSE /\ \/ UsableIndexes(h, nbytes) # {}
                     \/ \E b \in VBlockIds : h.mem[b] = <<>>
                  /\ StoreVectorHeap(small.h)
                  /\ vec_roots' = vec_roots \cup {small.p}
                  /\ vec_last' = [op |-> "allocate_vectorlike", len |-> len,
                                  ret |-> small.p]
          /\ vec_bytes_since_gc' = vec_bytes_since_gc + nbytes
          /\ vector_cells_consed' = vector_cells_consed + len
          /\ UNCHANGED <<vec_gcstat, nonVectorVars>>

\* The program drops its reference to vector v.
VectorDrop(v) ==
  /\ v \in vec_roots
  /\ vec_roots' = vec_roots \ {v}
  /\ vec_last' = [op |-> "drop", len |-> 0, ret |-> NullVector]
  /\ UNCHANGED <<vector_blocks, vblock_mem, vector_free_lists, large_vectors,
                 vec_gcstat, vector_cells_consed, vec_bytes_since_gc,
                 nonVectorVars>>

\* VECTOR_IN_BLOCK (vector, block) for the vector at offset off.
VECTOR_IN_BLOCK(off) == off <= VBLOCK_NBYTES - LISP_VECTOR_MIN

\* The run of unmarked vectors, if there is one, goes to the free lists.
FlushRun(r, b) ==
  IF r.run_vector = NullRun THEN r
  ELSE [r EXCEPT
          !.h = add_vector_free_lists(r.h, VPtr(b, r.run_vector), r.run_bytes),
          !.gc = [@ EXCEPT !.total_free_vector_slots =
                              @ + r.run_bytes \div word_size],
          !.run_bytes = 0,
          !.run_vector = NullRun]

\* Mutant: every unmarked vector goes to the free lists by itself.
RECURSIVE SweepVectorBlockApart(_, _, _, _)
SweepVectorBlockApart(r, marked, b, off) ==
  LET nbytes == vector_nbytes(r.h.mem, VPtr(b, off))
      f == FlushRun(r, b)
  IN IF ~ VECTOR_IN_BLOCK(off) THEN r
     ELSE IF VPtr(b, off) \in marked
       THEN SweepVectorBlockApart(
              [f EXCEPT !.gc = [@ EXCEPT !.total_vectors = @ + 1,
                                         !.total_vector_slots =
                                            @ + nbytes \div word_size]],
              marked, b, off + nbytes)
     ELSE SweepVectorBlockApart(
            [f EXCEPT !.run_vector = off, !.run_bytes = nbytes],
            marked, b, off + nbytes)

\* The inner loop of sweep_vectors over block b, from the vector at offset
\* off.  r.run_vector is the offset of run_vector, NullRun for a null one.
RECURSIVE SweepVectorBlock(_, _, _, _)
SweepVectorBlock(r, marked, b, off) ==
  LET nbytes == vector_nbytes(r.h.mem, VPtr(b, off))
      f == FlushRun(r, b)
  IN IF ~ VECTOR_IN_BLOCK(off) THEN r
     ELSE IF VPtr(b, off) \in marked
       THEN SweepVectorBlock(
              [f EXCEPT !.gc = [@ EXCEPT !.total_vectors = @ + 1,
                                         !.total_vector_slots =
                                            @ + nbytes \div word_size]],
              marked, b, off + nbytes)
     ELSE SweepVectorBlock(
            [r EXCEPT !.run_vector = IF @ = NullRun THEN off ELSE @,
                      !.run_bytes = @ + nbytes],
            marked, b, off + nbytes)

\* Mutant: no vector block is given back.
HarvestBlockNever(run_vector) == FALSE
\* "run_vector == (struct Lisp_Vector *) block->data": nothing in the block
\* was marked.
HarvestBlock(run_vector) == run_vector = 0

\* The outer loop of sweep_vectors over the blocks still to visit.
RECURSIVE SweepVectorBlocks(_, _, _)
SweepVectorBlocks(r, marked, blocks) ==
  LET b == Head(blocks)
      Decide(s) ==
        IF HarvestBlock(s.run_vector)
          THEN [s EXCEPT !.h = [@ EXCEPT !.mem[b] = <<>>,
                                         !.blocks =
                                            SelectSeq(@, LAMBDA c : c # b)]]
        ELSE FlushRun(s, b)
  IN IF blocks = <<>> THEN r
     ELSE SweepVectorBlocks(
            Decide(SweepVectorBlock(
                     [r EXCEPT !.run_vector = NullRun, !.run_bytes = 0],
                     marked, b, 0)),
            marked, Tail(blocks))

\* The loop of sweep_vectors over large_vectors from place i on: a marked
\* one is counted, another is taken off the list and freed.
RECURSIVE SweepLargeVectors(_, _, _)
SweepLargeVectors(r, marked, i) ==
  IF i > Len(r.h.large) THEN r
  ELSE IF LargeVector(r.h.large[i].id) \in marked
    THEN SweepLargeVectors(
           [h |-> r.h, run_vector |-> r.run_vector, run_bytes |-> r.run_bytes,
            gc |-> [total_vectors |-> r.gc.total_vectors + 1,
                    total_vector_slots |->
                      r.gc.total_vector_slots + header_size \div word_size
                        + r.h.large[i].size,
                    total_free_vector_slots |->
                      r.gc.total_free_vector_slots]],
           marked, i + 1)
  ELSE SweepLargeVectors(
         [h |-> [mem |-> r.h.mem, blocks |-> r.h.blocks, lists |-> r.h.lists,
                 large |-> SubSeq(r.h.large, 1, i - 1)
                             \o SubSeq(r.h.large, i + 1, Len(r.h.large))],
          run_vector |-> r.run_vector, run_bytes |-> r.run_bytes,
          gc |-> r.gc],
         marked, i)

\* sweep_vectors, given the vectors whose mark bit is set.
sweep_vectors(marked) ==
  SweepLargeVectors(
    SweepVectorBlocks(
      [h |-> [VectorHeap EXCEPT
                !.lists = [i \in 1..VBLOCK_NFREE_LISTS |-> NullVector]],
       run_vector |-> NullRun, run_bytes |-> 0,
       gc |-> [total_vectors |-> 0, total_vector_slots |-> 0,
               total_free_vector_slots |-> 0]],
      marked, vector_blocks),
    marked, 1)

\* garbage_collect, as far as vectors go: the vectors the program refers to
\* are marked, then gc_sweep's sweep_vectors.
GarbageCollectVectors ==
  LET r == sweep_vectors(vec_roots)
  IN /\ StoreVectorHeap(r.h)
     /\ vec_gcstat' = r.gc
     /\ vec_bytes_since_gc' = 0
     /\ vec_last' = [op |-> "garbage_collect", len |-> 0, ret |-> NullVector]
     /\ UNCHANGED <<vec_roots, vector_cells_consed, nonVectorVars>>

\* The lengths the program asks for.
VectorLens ==
  {0, 1, 2, 3, VECTOR_ELTS_MAX + 1, MOST_POSITIVE_FIXNUM}

\* C18: allocate_vectorlike with a len of 0 returns zero_vector, and with a
\* len for which header, contents offset and elements do not fit in
\* PTRDIFF_MAX bytes, or above MOST_POSITIVE_FIXNUM, it leaves through
\* memory_full; either way the vector blocks and their words, the free
\* lists, the large vectors, vector_cells_consed and the bytes added to
\* bytes_since_gc are what they were.
C18_ZeroAndOversizeChangeNothing ==
  [][vec_last'.op = "allocate_vectorlike"
       /\ \/ vec_last'.len = 0
          \/ vec_last'.len > MOST_POSITIVE_FIXNUM
          \/ header_size + large_vector_contents_offset
               + vec_last'.len * word_size > PTRDIFF_MAX
       => /\ vec_last'.ret = IF vec_last'.len = 0 THEN zero_vector
                             ELSE memory_full_signal
          /\ UNCHANGED <<vector_blocks, vblock_mem, vector_free_lists,
                         large_vectors, vector_cells_consed,
                         vec_bytes_since_gc, vec_roots, vec_gcstat>>]_vars

\* A state of C18: a request above VECTOR_ELTS_MAX has left through
\* memory_full with vectors in blocks, in the free lists and in the list of
\* large vectors.
C18_Witness ==
  /\ vec_last.op = "allocate_vectorlike"
  /\ vec_last.len > VECTOR_ELTS_MAX
  /\ vec_last.ret = memory_full_signal
  /\ vector_blocks # <<>>
  /\ large_vectors # <<>>
  /\ vector_cells_consed > 0
  /\ \E i \in 1..VBLOCK_NFREE_LISTS : vector_free_lists[i] # NullVector

VectorNext ==
  \/ \E len \in VectorLens : \E nbytes \in NBytesOf(len) :
       allocate_vectorlike(len, nbytes)
  \/ \E v \in vec_roots : VectorDrop(v)
  \/ GarbageCollectVectors

(***************************************************************************)
(* Properties of the vector heap.                                          *)
(***************************************************************************)
\* The vectors of block b met by walking it from offset off as the sweep
\* does, free ones included.
RECURSIVE VectorsFrom(_, _)
VectorsFrom(b, off) ==
  IF ~ VECTOR_IN_BLOCK(off) THEN {}
  ELSE {VPtr(b, off)}
         \cup VectorsFrom(b, off + vector_nbytes(vblock_mem, VPtr(b, off)))

\* The vectors in vector blocks that allocate_vectorlike has handed out.
SmallVectors ==
  UNION {{v \in VectorsFrom(vector_blocks[i], 0) :
            ~ vblock_mem[v[2]][WordAt(v[3])][3]} :
         i \in 1..Len(vector_blocks)}

\* The members of the free list that starts at p.
RECURSIVE FreeVectorsFrom(_, _)
FreeVectorsFrom(p, seen) ==
  IF p = NullVector \/ p \in seen THEN seen
  ELSE FreeVectorsFrom(next_vector(vblock_mem, p), seen \cup {p})
FreeVectors ==
  UNION {FreeVectorsFrom(vector_free_lists[i], {}) :
           i \in 1..VBLOCK_NFREE_LISTS}

\* The words of the vector of nbytes bytes at v, and the words of all the
\* members of the free lists.
WordsOf(v, nbytes) ==
  {<<v[2], k>> : k \in WordAt(v[3])..(WordAt(v[3] + nbytes) - 1)}
FreeWords ==
  UNION {WordsOf(p, vector_nbytes(vblock_mem, p)) : p \in FreeVectors}

\* C12 (as amended): when a small vector with no remaining reference is
\* collected, gcstat.total_vectors counts the vectors the program refers to
\* and not this one; and if some vector of its block is marked, its words
\* are afterwards words of members of the vector free lists, all of which
\* gcstat.total_free_vector_slots counts; if no vector of its block is
\* marked, the block is given back and none of its words is on a free list.
C12_DeadVectorFreedOrBlockReleased ==
  [][vec_last'.op = "garbage_collect"
       => /\ vec_gcstat'.total_vectors = Cardinality(vec_roots)
          /\ vec_gcstat'.total_free_vector_slots = Cardinality(FreeWords')
          /\ \A v \in SmallVectors \ vec_roots :
               IF \E w \in vec_roots : w[1] = "vector" /\ w[2] = v[2]
                 THEN WordsOf(v, vector_nbytes(vblock_mem, v))
                        \subseteq FreeWords'
               ELSE /\ vblock_mem'[v[2]] = <<>>
                    /\ \A i \in 1..Len(vector_blocks') :
                         vector_blocks'[i] # v[2]
                    /\ \A w \in FreeWords' : w[1] # v[2]]_vars

\* A state of C12: a collection has returned that kept a block with a live
\* vector and free words in it, and gave another block back.
C12_Witness ==
  /\ vec_last.op = "garbage_collect"
  /\ vec_gcstat.total_vectors >= 1
  /\ vec_gcstat.total_free_vector_slots >= 2
  /\ Len(vector_blocks) = 1
  /\ vector_cells_consed >= 4
  /\ \E v \in SmallVectors : v \in vec_roots /\ v[3] > 0

\* C12 as the claim states it: the words of a collected small vector are on
\* the free lists whatever else its block contains.
C12_AsClaimed ==
  [][vec_last'.op = "garbage_collect"
       => \A v \in SmallVectors \ vec_roots :
            WordsOf(v, vector_nbytes(vblock_mem, v)) \subseteq FreeWords']_vars

\* What is left of a vector of free list index when nbytes are taken.
ResidualOf(index, nbytes) == index * word_size + LISP_VECTOR_MIN - nbytes

\* The free lists a request of nbytes may be served from: not empty, at
\* index VINDEX (nbytes) or above, with a residual of 0 or of at least
\* LISP_VECTOR_MIN.
FittingLists(nbytes) ==
  {index \in 0..(VBLOCK_NFREE_LISTS - 1) :
     /\ index >= VINDEX(nbytes)
     /\ vector_free_lists[index + 1] # NullVector
     /\ ResidualOf(index, nbytes) \notin 1..(LISP_VECTOR_MIN - 1)}

\* The free lists after the head of list index is taken and a residual of
\* restbytes at r is put on the list of its size.
FreeListsAfter(index, r, restbytes) ==
  LET popped == [vector_free_lists EXCEPT ![index + 1] =
                   next_vector(vblock_mem, vector_free_lists[index + 1])]
  IN IF restbytes = 0 THEN popped
     ELSE [popped EXCEPT ![VINDEX(restbytes) + 1] = r]

\* C24: a small request is served from the first fitting free list; the
\* residual, if any, is afterwards the head of the free list of its own
\* size, a free vector of that size chained to the former head; a new
\* vector block is put at the head of the chain only when no list fits, and
\* then the rest of the block is the residual.
C24_FirstFittingListOrNewBlock ==
  [][(/\ vec_last'.op = "allocate_vectorlike"
      /\ vec_last'.len >= 1
      /\ header_size + vec_last'.len * word_size <= LARGE_VECTOR_THRESH)
       => LET nbytes == header_size + vec_last'.len * word_size
              p == vec_last'.ret
              r == VPtr(p[2], p[3] + nbytes)
              fit == FittingLists(nbytes)
              index == CHOOSE i \in fit : \A j \in fit : i <= j
              restbytes == IF fit # {} THEN ResidualOf(index, nbytes)
                           ELSE VBLOCK_NBYTES - nbytes
          IN /\ IF fit # {}
                  THEN /\ p = vector_free_lists[index + 1]
                       /\ vector_blocks' = vector_blocks
                       /\ vector_free_lists' =
                            FreeListsAfter(index, r, restbytes)
                ELSE /\ Tail(vector_blocks') = vector_blocks
                     /\ p = VPtr(Head(vector_blocks'), 0)
                     /\ \A k \in 1..Len(vector_blocks) :
                          vector_blocks[k] # p[2]
                     /\ vector_free_lists' =
                          [vector_free_lists EXCEPT
                             ![VINDEX(restbytes) + 1] = r]
             /\ restbytes # 0
                  => /\ vblock_mem'[r[2]][WordAt(r[3])]
                          = VHeader((restbytes - header_size) \div word_size,
                                    TRUE)
                     /\ next_vector(vblock_mem', r)
                          = (IF fit # {}
                               THEN FreeListsAfter(index, r, 0)
                             ELSE vector_free_lists)[VINDEX(restbytes) + 1]
             /\ vblock_mem'[p[2]][WordAt(p[3])]
                  = VHeader(vec_last'.len, FALSE)]_vars

\* The members of vector_free_lists[i - 1].
FreeVectorsOn(i) == FreeVectorsFrom(vector_free_lists[i], {})

\* Where the run of unmarked vectors that starts at offset off of block b
\* ends: at the first marked vector, or at the end of the block.
RECURSIVE RunEnd(_, _)
RunEnd(b, off) ==
  IF ~ VECTOR_IN_BLOCK(off) \/ VPtr(b, off) \in vec_roots THEN off
  ELSE RunEnd(b, off + vector_nbytes(vblock_mem, VPtr(b, off)))

\* The maximal runs of adjacent unmarked vectors of block b, each with its
\* bytes: a run starts at the block's data or where a marked vector ends.
MaximalRuns(b) ==
  {<<v, RunEnd(b, v[3]) - v[3]>> :
     v \in {w \in VectorsFrom(b, 0) :
              /\ w \notin vec_roots
              /\ \/ w[3] = 0
                 \/ \E m \in VectorsFrom(b, 0) :
                      /\ m \in vec_roots
                      /\ m[3] + vector_nbytes(vblock_mem, m) = w[3]}}

\* C27: after a collection, a block that had a marked vector is still in
\* the chain and the free vectors in it are its maximal runs of unmarked
\* vectors, each one free vector of the run's bytes on the free list of that
\* size; a block that had no marked vector is out of the chain and no free
\* vector is in it; the large vectors are those that were marked, in the
\* order they had.
C27_RunsMergedBlocksReleased ==
  [][vec_last'.op = "garbage_collect"
       => /\ \A k \in 1..Len(vector_blocks) :
               LET b == vector_blocks[k]
                   free == {p \in FreeVectors' : p[2] = b}
               IN IF \E w \in vec_roots : w[1] = "vector" /\ w[2] = b
                    THEN /\ \E j \in 1..Len(vector_blocks') :
                              vector_blocks'[j] = b
                         /\ {<<p, vector_nbytes(vblock_mem', p)>> : p \in free}
                              = MaximalRuns(b)
                         /\ \A p \in free :
                              /\ vblock_mem'[b][WordAt(p[3])][3]
                              /\ \E i \in 1..VBLOCK_NFREE_LISTS :
                                   /\ i = 1 + VINDEX(vector_nbytes(vblock_mem',
                                                                   p))
                                   /\ p \in FreeVectorsOn(i)'
                  ELSE /\ \A j \in 1..Len(vector_blocks') :
                            vector_blocks'[j] # b
                       /\ free = {}
          /\ large_vectors'
               = SelectSeq(large_vectors,
                           LAMBDA lv : LargeVector(lv.id) \in vec_roots)]_vars

\* Stepping through block b from offset off by vector_nbytes meets only
\* headers, of vectors handed out or of members of the free lists, and
\* ends at VBLOCK_NBYTES.
RECURSIVE VectorsTile(_, _, _)
VectorsTile(free, b, off) ==
  IF off >= VBLOCK_NBYTES THEN off = VBLOCK_NBYTES
  ELSE /\ vblock_mem[b][WordAt(off)][1] = "header"
       /\ vector_nbytes(vblock_mem, VPtr(b, off)) >= LISP_VECTOR_MIN
       /\ vblock_mem[b][WordAt(off)][3] <=> VPtr(b, off) \in free
       /\ VectorsTile(free, b,
                      off + vector_nbytes(vblock_mem, VPtr(b, off)))

\* C38: between allocations and collections the vectors of every vector
\* block, handed out and free, tile the block from its data to
\* VBLOCK_NBYTES; and every member of vector_free_lists[i] is a PVEC_FREE
\* vector of LISP_VECTOR_MIN + i * word_size bytes that is one of the
\* vectors of a block of the chain.
C38_BlocksTiledFreeListsSized ==
  \A free \in {FreeVectors} :
    /\ \A k \in 1..Len(vector_blocks) :
         VectorsTile(free, vector_blocks[k], 0)
    /\ \A i \in 0..(VBLOCK_NFREE_LISTS - 1) :
         \A p \in FreeVectorsOn(i + 1) :
           /\ p[1] = "vector"
           /\ \E k \in 1..Len(vector_blocks) : vector_blocks[k] = p[2]
           /\ p \in VectorsFrom(p[2], 0)
           /\ vblock_mem[p[2]][WordAt(p[3])][3]
           /\ vector_nbytes(vblock_mem, p)
                = LISP_VECTOR_MIN + i * word_size

\* A state of C38: a collection has kept a block in which a free vector
\* lies between two vectors the program holds, and another free vector
\* ends the block.
C38_Witness ==
  /\ vec_last.op = "garbage_collect"
  /\ \E p \in FreeVectors, q \in FreeVectors :
       /\ p[2] = q[2]
       /\ p[3] > 0
       /\ p[3] < q[3]
       /\ q[3] + vector_nbytes(vblock_mem, q) = VBLOCK_NBYTES
       /\ VPtr(p[2], p[3] + vector_nbytes(vblock_mem, p)) \in vec_roots

\* A state of C27: a collection has left, at the start of a block it kept,
\* one free vector longer than any small vector the program asks for, with
\* a vector the program holds after it.
C27_Witness ==
  /\ vec_last.op = "garbage_collect"
  /\ \E p \in FreeVectors :
       /\ p[3] = 0
       /\ vector_nbytes(vblock_mem, p) > LARGE_VECTOR_THRESH
       /\ VPtr(p[2], vector_nbytes(vblock_mem, p)) \in vec_roots

\* A state of C24: a vector of one element has been taken from inside a
\* block with a residual left behind it, and the free list of the
\* next size up, whose vectors would have left too small a residual, has a
\* vector that is not that residual.
C24_Witness ==
  /\ vec_last.op = "allocate_vectorlike"
  /\ vec_last.len = 1
  /\ vec_last.ret[1] = "vector"
  /\ vec_last.ret[3] > 0
  /\ \E i \in 1..VBLOCK_NFREE_LISTS :
       vector_free_lists[i]
         = VPtr(vec_last.ret[2], vec_last.ret[3] + LISP_VECTOR_MIN)
  /\ vector_free_lists[2] # NullVector
  /\ vector_free_lists[2]
       # VPtr(vec_last.ret[2], vec_last.ret[3] + LISP_VECTOR_MIN)

(***************************************************************************)
(* Control of collection.                                                  *)
(*                                                                         *)
(* Sizes are scaled.  garbage_collect is entered by one action, which      *)
(* takes it as far as run_finalizers, and left by another; between the two *)
(* the finalizers and post-gc-hook run, which are Lisp code that can call  *)
(* anything, garbage_collect included.  xsignal is not in alloc.c: it       *)
(* leaves the function that calls it, as the comment of xpalloc says.      *)
(***************************************************************************)
\* PURESIZE; "int small_amount = 10000"; "const size_t enough = (1 << 14)";
\* SIZE_MAX; sizeof (struct mark_entry); the 8192 entries the mark stack
\* starts with.
PURESIZE == 3
small_amount == 2
enough == 3
SIZE_MAX == 255
sizeof_mark_entry == 2
MARK_STACK_MIN_INCR == 2

\* The nesting of inhibit_garbage_collection, the collections, the depth of
\* marking and the pure bytes before overflow the model goes to.
MaxSpecpdl == 2
MaxCollections == 2
MaxMarkDepth == 3
MaxPureOverflow == 2

Vmemory_signal_data ==
  <<"pure_list", "error",
    "Memory exhausted--use M-x save-some-buffers then exit and restart Emacs">>
NoSignal == <<"none", "", "">>

\* How a call ended: it returned, it left by xsignal with data, or fatal
\* ended the process.
Returned == [how |-> "return", data |-> NoSignal]
Signaled(data) == [how |-> "signal", data |-> data]
Exited == [how |-> "exit", data |-> NoSignal]

\* Mutant: Vmemory_full is set whatever the request.
memory_full_always_full(s, nbytes, probe_ok) ==
  IF ~ s.initialized
    THEN [s |-> [s EXCEPT !.exited = TRUE], end |-> Exited]
  ELSE [s |-> [s EXCEPT !.Vmemory_full = Qt],
        end |-> Signaled(Vmemory_signal_data)]
\* memory_full (nbytes); probe_ok is whether malloc (enough) gives memory.
memory_full(s, nbytes, probe_ok) ==
  IF ~ s.initialized
    THEN [s |-> [s EXCEPT !.exited = TRUE], end |-> Exited]
  ELSE [s |-> [s EXCEPT !.Vmemory_full =
                          IF nbytes > enough /\ probe_ok THEN Qnil ELSE Qt],
        end |-> Signaled(Vmemory_signal_data)]

\* allow_garbage_collection, inhibit_garbage_collection, and unbind_to of
\* the count the latter returned.
allow_garbage_collection(s) == [s EXCEPT !.gc_inhibited = FALSE]
inhibit_garbage_collection(s) ==
  [s EXCEPT !.specpdl = @ + 1, !.gc_inhibited = TRUE]
unbind_to(s) == allow_garbage_collection([s EXCEPT !.specpdl = @ - 1])

\* pure_alloc (size, type), for a type of no alignment; xzalloc_ok is
\* whether xzalloc gets memory when the arena overflows.
pure_alloc(s, size, type, xzalloc_ok, probe_ok) ==
  LET s1 == IF type >= 0
              THEN [s EXCEPT !.pure_bytes_used_lisp = @ + size]
            ELSE [s EXCEPT !.pure_bytes_used_non_lisp = @ + size]
      s2 == [s1 EXCEPT !.pure_bytes_used =
                          s1.pure_bytes_used_lisp
                            + s1.pure_bytes_used_non_lisp]
      s3 == [s2 EXCEPT !.pure_size = small_amount,
                       !.pure_bytes_used_before_overflow =
                          @ + s2.pure_bytes_used - size,
                       !.pure_bytes_used = size,
                       !.pure_bytes_used_lisp = IF type >= 0 THEN size ELSE 0,
                       !.pure_bytes_used_non_lisp =
                          IF type >= 0 THEN 0 ELSE size,
                       !.gc_inhibited = TRUE]
  IN IF s2.pure_bytes_used <= s2.pure_size THEN [s |-> s2, end |-> Returned]
     ELSE IF xzalloc_ok THEN [s |-> s3, end |-> Returned]
     ELSE memory_full(s2, small_amount, probe_ok)

\* xpalloc's new number of items for n0 items and a least increment.
xpalloc_nitems(n0, nitems_incr_min) ==
  Max(n0 + n0 \div 2, n0 + nitems_incr_min)

\* The marking of garbage_collect that needs `need' entries of mark stack:
\* mark_stack_push calls grow_mark_stack when the stack is full, and
\* xpalloc calls memory_full when there is no memory (grow_ok is false).
RECURSIVE MarkWithStack(_, _, _, _)
MarkWithStack(s, need, grow_ok, probe_ok) ==
  LET n == xpalloc_nitems(s.mark_stk.size,
                          IF s.mark_stk.size = 0 THEN MARK_STACK_MIN_INCR
                          ELSE 1)
  IN IF need <= s.mark_stk.size
       THEN [s |-> [s EXCEPT !.mark_stk.sp = 0], end |-> Returned]
     ELSE IF grow_ok
       THEN MarkWithStack([s EXCEPT !.mark_stk.size = n], need, grow_ok,
                          probe_ok)
     ELSE memory_full([s EXCEPT !.mark_stk.sp = s.mark_stk.size],
                      n * sizeof_mark_entry, probe_ok)

\* Mutant: garbage_collect tests gc_inhibited only.
garbage_collect_test_inhibited(s) == s.gc_inhibited
\* "if (gc_inhibited || gc_in_progress) return;"
garbage_collect_test(s) == s.gc_inhibited \/ s.gc_in_progress

\* garbage_collect from its call to where it calls run_finalizers.
garbage_collect(s, need, grow_ok, probe_ok) ==
  LET m == MarkWithStack([s EXCEPT !.gc_in_progress = TRUE], need, grow_ok,
                         probe_ok)
  IN IF garbage_collect_test(s) THEN [s |-> s, end |-> Returned]
     ELSE IF m.end # Returned THEN m
     ELSE [s |-> [m.s EXCEPT !.sweeps_done = @ + 1, !.frames = @ + 1],
           end |-> [how |-> "run_finalizers", data |-> NoSignal]]

\* garbage_collect from where run_finalizers returns to its end; hook is
\* whether Vpost_gc_hook is not nil.
garbage_collect_end(s, hook) ==
  LET h == IF hook THEN unbind_to(inhibit_garbage_collection(s)) ELSE s
  IN [h EXCEPT !.gc_in_progress = FALSE, !.gcs_done = @ + 1,
               !.frames = @ - 1]

ControlInit ==
  /\ ctl = [gc_in_progress |-> FALSE, gc_inhibited |-> FALSE,
            Vmemory_full |-> Qnil, initialized |-> FALSE,
            mark_stk |-> [size |-> 0, sp |-> 0],
            pure_size |-> PURESIZE, pure_bytes_used |-> 0,
            pure_bytes_used_lisp |-> 0, pure_bytes_used_non_lisp |-> 0,
            pure_bytes_used_before_overflow |-> 0,
            gcs_done |-> 0, specpdl |-> 0, frames |-> 0, sweeps_done |-> 0,
            exited |-> FALSE]
  /\ ctl_last = [op |-> "init", arg |-> <<0, FALSE>>, end |-> Returned]

\* After a call that ended as r; arg is a number it was given and whether
\* malloc (enough) would give memory.
ControlAfter(op, arg, r) ==
  /\ ctl' = r.s
  /\ ctl_last' = [op |-> op, arg |-> arg, end |-> r.end]
  /\ UNCHANGED nonControlVars

\* main sets initialized once the first initialization is done.
Initialize ==
  /\ ~ ctl.exited /\ ~ ctl.initialized
  /\ ControlAfter("initialize", <<0, FALSE>>,
                  [s |-> [ctl EXCEPT !.initialized = TRUE], end |-> Returned])

\* A call of pure_alloc.  The program makes none after one that xzalloc had
\* no memory for.
PureAlloc(size, type, xzalloc_ok, probe_ok) ==
  /\ ~ ctl.exited
  /\ ctl.pure_bytes_used_before_overflow <= MaxPureOverflow
  /\ ctl.pure_bytes_used <= ctl.pure_size
  /\ ControlAfter("pure_alloc", <<size, FALSE>>,
                  pure_alloc(ctl, size, type, xzalloc_ok, probe_ok))

\* A call of inhibit_garbage_collection, and the unbind_to that goes with
\* the innermost one.
InhibitGC ==
  /\ ~ ctl.exited /\ ctl.specpdl < MaxSpecpdl
  /\ ControlAfter("inhibit_garbage_collection", <<0, FALSE>>,
                  [s |-> inhibit_garbage_collection(ctl), end |-> Returned])
UnbindTo ==
  /\ ~ ctl.exited /\ ctl.specpdl > 0
  /\ ControlAfter("unbind_to", <<0, FALSE>>,
                  [s |-> unbind_to(ctl), end |-> Returned])

\* A call of garbage_collect, by the program or by a finalizer or
\* post-gc-hook of a collection.
GarbageCollectCall(need, grow_ok, probe_ok) ==
  /\ ~ ctl.exited /\ ctl.sweeps_done < MaxCollections
  /\ ControlAfter("garbage_collect", <<0, FALSE>>,
                  garbage_collect(ctl, need, grow_ok, probe_ok))

\* The finalizers and post-gc-hook of the innermost collection are done and
\* it goes on to its end.
GarbageCollectEnd(hook) ==
  /\ ~ ctl.exited /\ ctl.frames > 0
  /\ ControlAfter("garbage_collect_end", <<0, FALSE>>,
                  [s |-> garbage_collect_end(ctl, hook), end |-> Returned])

\* A call of memory_full from an allocation that found no memory.
MemoryFull(nbytes, probe_ok) ==
  /\ ~ ctl.exited
  /\ ControlAfter("memory_full", <<nbytes, probe_ok>>,
                  memory_full(ctl, nbytes, probe_ok))

ControlNext ==
  \/ Initialize
  \/ \E size \in 1..2, type \in {0, -1}, xzalloc_ok \in BOOLEAN,
        probe_ok \in BOOLEAN : PureAlloc(size, type, xzalloc_ok, probe_ok)
  \/ InhibitGC
  \/ UnbindTo
  \/ \E need \in 1..MaxMarkDepth, grow_ok \in BOOLEAN, probe_ok \in BOOLEAN :
       GarbageCollectCall(need, grow_ok, probe_ok)
  \/ \E hook \in BOOLEAN : GarbageCollectEnd(hook)
  \/ \E nbytes \in {enough, SIZE_MAX}, probe_ok \in BOOLEAN :
       MemoryFull(nbytes, probe_ok)

(***************************************************************************)
(* Properties of the control of collection.                                *)
(***************************************************************************)
\* C13: a call of garbage_collect made while gc_in_progress is true returns
\* and changes nothing: no marking (mark_stk is what it was), no sweep, no
\* other variable; and there is never more than one call of
\* garbage_collect that has passed its first test and not left.
C13_CallInProgressReturns ==
  [][/\ ctl_last'.op = "garbage_collect" /\ ctl.gc_in_progress
          => ctl' = ctl /\ ctl_last'.end = Returned
     /\ ctl'.frames <= 1]_vars

\* A state of C13: a finalizer or post-gc-hook of a collection that is not
\* inhibited has called garbage_collect, and the call has returned.
C13_Witness ==
  /\ ctl_last.op = "garbage_collect"
  /\ ctl_last.end = Returned
  /\ ctl.gc_in_progress
  /\ ~ ctl.gc_inhibited
  /\ ctl.frames = 1
  /\ ctl.sweeps_done >= 1

\* C14 as the claim states it: for as long as an
\* inhibit_garbage_collection has not been unwound, collection is inhibited
\* and a call of garbage_collect collects nothing.
C14_AsClaimed ==
  [][ctl.specpdl > 0 /\ ctl_last'.op = "garbage_collect"
       => ctl.gc_inhibited /\ ctl' = ctl]_vars

\* C15 as the claim states it: once pure_alloc has gone over to the small
\* region, no call of garbage_collect collects, whatever
\* inhibit_garbage_collection and unbind_to have done since.
C15_AsClaimed ==
  [][ctl.pure_size = small_amount /\ ctl_last'.op = "garbage_collect"
       => ctl' = ctl]_vars

\* C16 as the claim states it: whenever no call of garbage_collect is under
\* way in a process that has not ended, gc_in_progress is false, and every
\* collection begun has swept and come to its end.
C16_AsClaimed ==
  ctl.frames = 0 /\ ~ ctl.exited
    => ~ ctl.gc_in_progress /\ ctl.gcs_done = ctl.sweeps_done

\* C17 (as amended): once initialized, memory_full leaves by xsignal with
\* Vmemory_signal_data and changes nothing but Vmemory_full, which it
\* leaves t when the request is of at most `enough' bytes or malloc
\* (enough) gives no memory, and nil when the request is larger and malloc
\* (enough) gives memory; before that it ends the process.
C17_MemoryFullSignalsAndFlags ==
  [][ctl_last'.op = "memory_full"
       => IF ctl.initialized
            THEN /\ ctl_last'.end = Signaled(Vmemory_signal_data)
                 /\ ctl' = [ctl EXCEPT !.Vmemory_full =
                              IF ctl_last'.arg[1] > enough
                                   /\ ctl_last'.arg[2]
                                THEN Qnil ELSE Qt]
          ELSE /\ ctl_last'.end = Exited
               /\ ctl' = [ctl EXCEPT !.exited = TRUE]]_vars

\* A state of C17: after initialization a request larger than `enough' has
\* ended in memory_full, with pure storage in use, and Vmemory_full is nil.
C17_Witness ==
  /\ ctl_last.op = "memory_full"
  /\ ctl_last.end = Signaled(Vmemory_signal_data)
  /\ ctl_last.arg[1] > enough
  /\ ctl.initialized
  /\ ctl.pure_bytes_used > 0
  /\ ctl.Vmemory_full = Qnil

\* C17 as the claim states it: memory_full leaves Vmemory_full non-nil for
\* every size.
C17_AsClaimed ==
  [][ctl_last'.op = "memory_full" /\ ctl.initialized
       => ctl'.Vmemory_full # Qnil]_vars

(***************************************************************************)
(* The consing counters of memory-use-counts.                              *)
(*                                                                         *)
(* Every function of alloc.c that changes one of the seven counters, with  *)
(* what it does to the counters and to bytes_since_gc, and free_cons and   *)
(* garbage_collect, which change bytes_since_gc only.  bytes_since_gc is    *)
(* scaled: a cons adds 2, another object 1 and 1 for each element or byte. *)
(***************************************************************************)
\* The allocations the model goes to, and the longest vector and string.
MaxAllocations == 3
MaxCountedLen == 2

\* The functions that count, each with the line of its counter.
ConsingOps ==
  {"make_interval", "make_clear_multibyte_string", "make_float", "Fcons",
   "allocate_vectorlike", "Fmake_symbol", "Fmemory_use_counts"}

\* What the allocation op of n elements (or bytes) does to the counters.
\* make_clear_multibyte_string returns empty_multibyte_string for no bytes,
\* allocate_vectorlike zero_vector for no elements; Fmemory_use_counts makes
\* a list of seven conses.
ConsingOf(s, op, n) ==
  CASE op = "make_interval" ->
         [s EXCEPT !.intervals_consed = @ + 1, !.bytes_since_gc = @ + 1]
    [] op = "make_clear_multibyte_string" ->
         IF n = 0 THEN s
         ELSE [s EXCEPT !.strings_consed = @ + 1,
                        !.string_chars_consed = @ + n,
                        !.bytes_since_gc = @ + 1 + n]
    [] op = "make_float" ->
         [s EXCEPT !.floats_consed = @ + 1, !.bytes_since_gc = @ + 1]
    [] op = "Fcons" ->
         [s EXCEPT !.cons_cells_consed = @ + 1, !.bytes_since_gc = @ + 2,
                   !.conses = @ + 1]
    [] op = "allocate_vectorlike" ->
         IF n = 0 THEN s
         ELSE [s EXCEPT !.vector_cells_consed = @ + n,
                        !.bytes_since_gc = @ + 1 + n]
    [] op = "Fmake_symbol" ->
         [s EXCEPT !.symbols_consed = @ + 1, !.bytes_since_gc = @ + 1]
    [] op = "Fmemory_use_counts" ->
         [s EXCEPT !.cons_cells_consed = @ + 7, !.bytes_since_gc = @ + 14,
                   !.conses = @ + 7]

\* Mutant: free_cons takes the cons off the count as well.
CountedFreeConsUncounting(s) ==
  [s EXCEPT !.bytes_since_gc = @ - 2, !.conses = @ - 1,
            !.cons_cells_consed = @ - 1]
\* free_cons (ptr): "bytes_since_gc -= nbytes" and no counter.
CountedFreeCons(s) == [s EXCEPT !.bytes_since_gc = @ - 2, !.conses = @ - 1]

\* garbage_collect that leaves `live' of the conses: "bytes_since_gc = 0"
\* and no counter.
CountedGarbageCollect(s, live) ==
  [s EXCEPT !.bytes_since_gc = 0, !.conses = live]

\* ARRAYELTS (lispsym), the built-in symbols, scaled.
ARRAYELTS_lispsym == 1

\* The counters after syms_of_alloc: "symbols_consed += ARRAYELTS (lispsym)".
CounterInit ==
  /\ consing = [cons_cells_consed |-> 0, floats_consed |-> 0,
                vector_cells_consed |-> 0,
                symbols_consed |-> ARRAYELTS_lispsym,
                string_chars_consed |-> 0, intervals_consed |-> 0,
                strings_consed |-> 0, bytes_since_gc |-> 0, conses |-> 0]
  /\ cnt_last = [op |-> "init", n |-> 0, allocations |-> 0]

CountAllocation(op, n) ==
  /\ cnt_last.allocations < MaxAllocations
  /\ consing' = ConsingOf(consing, op, n)
  /\ cnt_last' = [op |-> op, n |-> n, allocations |-> cnt_last.allocations + 1]
  /\ UNCHANGED nonCounterVars

CountFreeCons ==
  /\ consing.conses > 0
  /\ consing' = CountedFreeCons(consing)
  /\ cnt_last' = [cnt_last EXCEPT !.op = "free_cons", !.n = 0]
  /\ UNCHANGED nonCounterVars

CountGarbageCollect(live) ==
  /\ consing' = CountedGarbageCollect(consing, live)
  /\ cnt_last' = [cnt_last EXCEPT !.op = "garbage_collect", !.n = 0]
  /\ UNCHANGED nonCounterVars

CounterNext ==
  \/ \E op \in ConsingOps, n \in 0..MaxCountedLen : CountAllocation(op, n)
  \/ CountFreeCons
  \/ \E live \in 0..consing.conses : CountGarbageCollect(live)

(***************************************************************************)
(* Properties of the consing counters.                                     *)
(***************************************************************************)
\* The seven counters memory-use-counts reports.
MemoryUseCounts ==
  {"cons_cells_consed", "floats_consed", "vector_cells_consed",
   "symbols_consed", "string_chars_consed", "intervals_consed",
   "strings_consed"}

\* C20: no allocation, free_cons or collection makes any of the seven
\* counters of memory-use-counts smaller.
C20_CountersNeverDecrease ==
  [][\A k \in MemoryUseCounts : consing'[k] >= consing[k]]_vars

\* A state of C20: a cons has been freed by free_cons with bytes_since_gc
\* taken back, and cons_cells_consed still counts it.
C20_Witness ==
  /\ cnt_last.op = "free_cons"
  /\ consing.cons_cells_consed > consing.conses
  /\ consing.bytes_since_gc < 2 * consing.cons_cells_consed
  /\ consing.vector_cells_consed > 0

(***************************************************************************)
(* xpalloc.                                                                *)
(*                                                                         *)
(* ptrdiff_t has PTRDIFF_MAX as its largest value and size_t SIZE_MAX; the  *)
(* arithmetic of xpalloc is that of the code, with INT_ADD_WRAPV and       *)
(* INT_MULTIPLY_WRAPV telling whether the exact result is above            *)
(* PTRDIFF_MAX.                                                            *)
(***************************************************************************)
\* enum { DEFAULT_MXFAST = 64 * sizeof (size_t) / 4 }, for a size_t of one
\* byte.
DEFAULT_MXFAST == 16

\* The sizes of items, the least increments and the limits the callers give.
ItemSizes == {1, 3, 8}
IncrMins == {1, 4}
NitemsMaxes == {-1, 0, 2, 20}

\* INT_ADD_WRAPV (a, b, &r) and INT_MULTIPLY_WRAPV (a, b, &r) for a and b
\* not negative: whether the result does not fit ptrdiff_t.
INT_ADD_WRAPV(a, b) == a + b > PTRDIFF_MAX
INT_MULTIPLY_WRAPV(a, b) == a * b > PTRDIFF_MAX

\* xpalloc (pa, nitems, nitems_incr_min, nitems_max, item_size) for an
\* array a (pa is a.pa, *nitems is a.nitems); realloc_ok is whether xrealloc
\* gets memory.  The result is the array afterwards and how the call ended:
\* by return, or by the signal of memory_full.
xpalloc(a, nitems_incr_min, nitems_max, item_size, realloc_ok) ==
  LET n0 == a.nitems
      n1 == IF INT_ADD_WRAPV(n0, n0 \div 2) THEN PTRDIFF_MAX
            ELSE n0 + n0 \div 2
      n2 == IF 0 <= nitems_max /\ nitems_max < n1 THEN nitems_max ELSE n1
      adjusted_nbytes ==
        IF INT_MULTIPLY_WRAPV(n2, item_size) \/ SIZE_MAX < n2 * item_size
          THEN Min(PTRDIFF_MAX, SIZE_MAX)
        ELSE IF n2 * item_size < DEFAULT_MXFAST THEN DEFAULT_MXFAST
        ELSE 0
      n3 == IF adjusted_nbytes # 0 THEN adjusted_nbytes \div item_size ELSE n2
      nbytes3 == IF adjusted_nbytes # 0
                   THEN adjusted_nbytes - (adjusted_nbytes % item_size)
                 ELSE n2 * item_size
      a1 == IF a.pa THEN a ELSE [a EXCEPT !.nitems = 0]
      short == n3 - n0 < nitems_incr_min
      n4 == n0 + nitems_incr_min
      n == IF short THEN n4 ELSE n3
      nbytes == IF short THEN n4 * item_size ELSE nbytes3
  IN IF short /\ (\/ INT_ADD_WRAPV(n0, nitems_incr_min)
                  \/ (0 <= nitems_max /\ nitems_max < n4)
                  \/ INT_MULTIPLY_WRAPV(n4, item_size))
       THEN [a |-> a1, end |-> "signal"]
     ELSE IF ~ realloc_ok THEN [a |-> a1, end |-> "signal"]
     ELSE [a |-> [pa |-> TRUE, nitems |-> n, item_size |-> item_size,
                  nbytes |-> nbytes],
           end |-> "return"]

XpallocInit ==
  /\ xp = [pa |-> FALSE, nitems |-> 0, item_size |-> 1, nbytes |-> 0]
  /\ xp_last = [op |-> "init", nitems_incr_min |-> 1, nitems_max |-> -1,
                end |-> "return"]

\* A call of xpalloc for the array; an array that exists keeps the size of
\* its items.
XpallocCall(nitems_incr_min, nitems_max, item_size, realloc_ok) ==
  /\ xp.pa => item_size = xp.item_size
  /\ xp' = xpalloc(xp, nitems_incr_min, nitems_max, item_size, realloc_ok).a
  /\ xp_last' = [op |-> "xpalloc", nitems_incr_min |-> nitems_incr_min,
                 nitems_max |-> nitems_max,
                 end |-> xpalloc(xp, nitems_incr_min, nitems_max, item_size,
                                 realloc_ok).end]
  /\ UNCHANGED nonXpallocVars

\* "xfree (A); A = NULL;": the caller gives the array up and keeps its
\* count of items.
XpallocFree ==
  /\ xp.pa
  /\ xp' = [xp EXCEPT !.pa = FALSE, !.nbytes = 0]
  /\ xp_last' = [op |-> "xfree", nitems_incr_min |-> 1, nitems_max |-> -1,
                 end |-> "return"]
  /\ UNCHANGED nonXpallocVars

XpallocNext ==
  \/ \E nitems_incr_min \in IncrMins, nitems_max \in NitemsMaxes,
        item_size \in ItemSizes, realloc_ok \in BOOLEAN :
       XpallocCall(nitems_incr_min, nitems_max, item_size, realloc_ok)
  \/ XpallocFree

(***************************************************************************)
(* Properties of xpalloc.                                                  *)
(***************************************************************************)
\* C22 as the claim states it: when xpalloc returns, the new *nitems is at
\* least the old one plus nitems_incr_min and, for a nitems_max that is not
\* negative, at most nitems_max.
C22_AsClaimed ==
  [][xp_last'.op = "xpalloc" /\ xp_last'.end = "return"
       => /\ xp'.nitems >= xp.nitems + xp_last'.nitems_incr_min
          /\ xp_last'.nitems_max >= 0
               => xp'.nitems <= xp_last'.nitems_max]_vars

(***************************************************************************)
(* Marking of hash tables: process_mark_stack at PVEC_HASH_TABLE, the list *)
(* weak_hash_tables and mark_and_sweep_weak_table_contents.  The tables    *)
(* are held by staticpro'd variables, two of which may hold the same       *)
(* table; the keys and values are objects without slots.                   *)
(* sweep_weak_table is not in alloc.c; here an entry of a weak table goes  *)
(* when its object is not marked.                                          *)
(***************************************************************************)
\* The hash tables and the objects there is memory for, and the
\* staticpro'd variables.
MaxHashTables == 2
MaxHashObjects == 2
MaxHashStatics == 3

HashTableIds == 1..MaxHashTables
HashObjIds == 1..MaxHashObjects
\* What a mark bit belongs to: a table, its key and value vector, an object.
TableOf(t) == <<"table", t>>
KeyAndValueOf(t) == <<"key_and_value", t>>
HashObj(o) == <<"obj", o>>

\* Mutant: the contents of the key and value vector are pushed whatever the
\* weakness of the table.
mark_hash_table_strongly(r, t) ==
  IF TableOf(t) \in r.marked THEN r
  ELSE [r EXCEPT
          !.marked = @ \cup {TableOf(t), KeyAndValueOf(t)}
                       \cup {HashObj(o) : o \in r.tables[t].key_and_value},
          !.eassert = @ /\ (r.tables[t].weak = Qnil
                              \/ r.tables[t].next_weak = NULL),
          !.tables = IF r.tables[t].weak = Qnil THEN @
                     ELSE [@ EXCEPT ![t].next_weak = r.head],
          !.head = IF r.tables[t].weak = Qnil THEN @ ELSE t,
          !.linked = IF r.tables[t].weak = Qnil THEN @ ELSE Append(@, t)]

\* process_mark_stack for a hash table t that mark_object was given: nothing
\* if its mark bit is set; otherwise the table is marked, and either
\* key_and_value is pushed, which marks the vector and then its contents,
\* or the table is weak: it is put at the head of weak_hash_tables and its
\* vector alone is marked.  r holds the mark bits, the tables, the head of
\* the list, the tables linked so far and whether eassert (h->next_weak ==
\* NULL) has held.
mark_hash_table(r, t) ==
  IF TableOf(t) \in r.marked THEN r
  ELSE IF r.tables[t].weak = Qnil
    THEN [r EXCEPT
            !.marked = @ \cup {TableOf(t), KeyAndValueOf(t)}
                         \cup {HashObj(o) : o \in r.tables[t].key_and_value}]
  ELSE [r EXCEPT
          !.marked = @ \cup {TableOf(t), KeyAndValueOf(t)},
          !.eassert = @ /\ r.tables[t].next_weak = NULL,
          !.tables[t].next_weak = r.head,
          !.head = t,
          !.linked = Append(@, t)]

\* mark_most_objects: mark_object (*staticvec[i]) from variable i on.
RECURSIVE MarkHashStatics(_, _)
MarkHashStatics(r, i) ==
  IF i > Len(wh_staticvec) THEN r
  ELSE MarkHashStatics(mark_hash_table(r, wh_staticvec[i]), i + 1)

\* The second loop of mark_and_sweep_weak_table_contents: while the list
\* has a table, it is taken off, its next_weak set to null, and
\* sweep_weak_table (h, true) removes its entries that are not marked.
RECURSIVE UnlinkWeakTables(_)
UnlinkWeakTables(r) ==
  IF r.head = NULL THEN r
  ELSE UnlinkWeakTables(
         [r EXCEPT
            !.head = r.tables[r.head].next_weak,
            !.tables[r.head] =
               [weak |-> @.weak,
                key_and_value |->
                  {o \in @.key_and_value : HashObj(o) \in r.marked},
                next_weak |-> NULL]])

HashInit ==
  /\ hash_tables = <<>>
  /\ weak_hash_tables = NULL
  /\ wh_staticvec = <<>>
  /\ wh_last = [op |-> "init", linked |-> <<>>, marked |-> {},
                entry |-> TRUE, eassert |-> TRUE]

HashLast(op) ==
  [op |-> op, linked |-> <<>>, marked |-> {}, entry |-> TRUE,
   eassert |-> TRUE]

\* make-hash-table with :weakness weak (Qnil for none), and the store of
\* the table into a staticpro'd variable.
HashMakeTable(weak) ==
  /\ Len(hash_tables) < MaxHashTables
  /\ Len(wh_staticvec) < MaxHashStatics
  /\ hash_tables' = Append(hash_tables,
                           [weak |-> weak, key_and_value |-> {},
                            next_weak |-> NULL])
  /\ wh_staticvec' = Append(wh_staticvec, Len(hash_tables) + 1)
  /\ wh_last' = HashLast("make_hash_table")
  /\ UNCHANGED <<weak_hash_tables, nonWhVars>>

\* The program stores table t into one more staticpro'd variable.
HashStaticpro(t) ==
  /\ t \in DOMAIN hash_tables
  /\ Len(wh_staticvec) < MaxHashStatics
  /\ wh_staticvec' = Append(wh_staticvec, t)
  /\ wh_last' = HashLast("staticpro")
  /\ UNCHANGED <<hash_tables, weak_hash_tables, nonWhVars>>

\* puthash of object o, as key and value, into table t.
HashPuthash(t, o) ==
  /\ t \in DOMAIN hash_tables
  /\ o \notin hash_tables[t].key_and_value
  /\ hash_tables' = [hash_tables EXCEPT ![t].key_and_value = @ \cup {o}]
  /\ wh_last' = HashLast("puthash")
  /\ UNCHANGED <<weak_hash_tables, wh_staticvec, nonWhVars>>

\* garbage_collect: eassert (weak_hash_tables == NULL), mark_most_objects,
\* mark_and_sweep_weak_table_contents; the sweep then clears the mark bits.
GarbageCollectHash ==
  LET marking == MarkHashStatics(
                   [marked |-> {}, tables |-> hash_tables,
                    head |-> weak_hash_tables, linked |-> <<>>,
                    eassert |-> TRUE],
                   1)
      done == UnlinkWeakTables(marking)
  IN /\ hash_tables' = done.tables
     /\ weak_hash_tables' = done.head
     /\ wh_last' = [op |-> "garbage_collect", linked |-> marking.linked,
                    marked |-> marking.marked,
                    entry |-> weak_hash_tables = NULL,
                    eassert |-> marking.eassert]
     /\ UNCHANGED <<wh_staticvec, nonWhVars>>

HashNext ==
  \/ \E weak \in {Qnil, Qt} : HashMakeTable(weak)
  \/ \E t \in HashTableIds : HashStaticpro(t)
  \/ \E t \in HashTableIds, o \in HashObjIds : HashPuthash(t, o)
  \/ GarbageCollectHash

\* The tables the staticpro'd variables hold, and the weak ones of them.
StaticHashTables == {wh_staticvec[i] : i \in 1..Len(wh_staticvec)}
StaticWeakTables == {t \in StaticHashTables : hash_tables[t].weak # Qnil}

\* C32: a collection's core mark phase marks the key and value vector of
\* every table it reaches and, of the objects in those vectors, only the
\* ones in a table that is not weak; every weak table reached is linked on
\* weak_hash_tables once, with its next_weak null when it is linked; and
\* between collections, so on entry to garbage_collect and on return from
\* it, weak_hash_tables is null and so is next_weak of every table.
C32_WeakTablesLinkedOnce ==
  /\ weak_hash_tables = NULL
  /\ \A t \in DOMAIN hash_tables : hash_tables[t].next_weak = NULL
  /\ wh_last.entry /\ wh_last.eassert
  /\ wh_last.op = "garbage_collect"
       => /\ \A t \in StaticHashTables : KeyAndValueOf(t) \in wh_last.marked
          /\ \A o \in HashObjIds :
               HashObj(o) \in wh_last.marked
                 <=> \E t \in StaticHashTables \ StaticWeakTables :
                       o \in hash_tables[t].key_and_value
          /\ {wh_last.linked[i] : i \in 1..Len(wh_last.linked)}
               = StaticWeakTables
          /\ Len(wh_last.linked) = Cardinality(StaticWeakTables)

\* A state of C32: a collection has reached a weak table through two
\* variables and linked it and another weak table, and a table that is not
\* weak has kept an object marked.
C32_Witness ==
  /\ wh_last.op = "garbage_collect"
  /\ Len(wh_staticvec) > Cardinality(StaticHashTables)
  /\ Len(wh_last.linked) >= 1
  /\ \E o \in HashObjIds : HashObj(o) \in wh_last.marked
  /\ \E t \in StaticWeakTables :
       Cardinality({i \in 1..Len(wh_staticvec) : wh_staticvec[i] = t}) = 2

(***************************************************************************)
(* Pure storage: pure_alloc with its alignment, the regions it hands out   *)
(* storage from, and the test PURE_P of process_mark_stack.  Region 0 is   *)
(* the array pure; the others come from xzalloc.  PURE_P is not in         *)
(* alloc.c; as in the specification it tells whether a pointer is into the *)
(* permanent arena, the array pure.  The program refers to every Lisp      *)
(* object it has allocated in pure storage.                                *)
(***************************************************************************)
\* LISP_ALIGNMENT, scaled as PURESIZE is, and the regions xzalloc can give
\* before the program stops allocating pure storage.
LISP_ALIGNMENT == 2
MaxPureRegions == 2

\* pointer_align (purebeg + off, alignment) - purebeg, purebeg being
\* aligned.
pointer_align(off, alignment) ==
  ((off + alignment - 1) \div alignment) * alignment

\* result - purebeg for a Lisp object.
PureLispResult(p) == pointer_align(p.pure_bytes_used_lisp, LISP_ALIGNMENT)

\* The body of pure_alloc from the label again to the test of
\* pure_bytes_used: the counters after it and result - purebeg.
PureTake(p, size, type) ==
  IF type >= 0
    THEN [p |-> [p EXCEPT !.pure_bytes_used_lisp =
                             pointer_align(@, LISP_ALIGNMENT) + size],
          result |-> PureLispResult(p)]
  ELSE LET unaligned_non_lisp == p.pure_bytes_used_non_lisp + size
           unaligned == p.pure_size - unaligned_non_lisp
           decr == unaligned % (0 - type)
       IN [p |-> [p EXCEPT !.pure_bytes_used_non_lisp =
                              unaligned_non_lisp + decr],
           result |-> unaligned - decr]

\* pure_alloc (size, type): the state after it, the storage returned and
\* whether it went over to a new region.
pure_alloc_storage(p, size, type) ==
  LET first == PureTake(p, size, type)
      over == [p EXCEPT !.purebeg = @ + 1,
                        !.pure_size = small_amount,
                        !.pure_bytes_used_lisp = 0,
                        !.pure_bytes_used_non_lisp = 0,
                        !.gc_inhibited = TRUE]
      again == PureTake(over, size, type)
      Storage(r) == [region |-> r.p.purebeg, start |-> r.result,
                     end |-> r.result + size, type |-> type]
  IN IF first.p.pure_bytes_used_lisp + first.p.pure_bytes_used_non_lisp
          <= p.pure_size
       THEN [p |-> first.p, result |-> Storage(first), overflow |-> FALSE]
     ELSE [p |-> again.p, result |-> Storage(again), overflow |-> TRUE]

\* PURE_P (po): whether the storage is in the array pure.
PURE_P(po) == po.region = 0

\* The objects process_mark_stack goes on to mark and traverse out of the
\* Lisp objects allocs that marking pops: those for which PURE_P is false.
Traversed(allocs) == {po \in allocs : po.type >= 0 /\ ~ PURE_P(po)}

PureInit ==
  /\ pure = [purebeg |-> 0, pure_size |-> PURESIZE,
             pure_bytes_used_lisp |-> 0, pure_bytes_used_non_lisp |-> 0,
             gc_inhibited |-> FALSE, specpdl |-> 0]
  /\ pure_allocs = {}
  /\ pure_last = [op |-> "init", result |-> NULL, overflow |-> FALSE,
                  traversed |-> {}]

\* A call of pure_alloc; the size fits the region xzalloc would give.
PureAllocStorage(size, type) ==
  /\ size <= small_amount
  /\ LET r == pure_alloc_storage(pure, size, type)
     IN /\ r.p.purebeg <= MaxPureRegions
        /\ pure' = r.p
        /\ pure_allocs' = pure_allocs \cup {r.result}
        /\ pure_last' = [op |-> "pure_alloc", result |-> r.result,
                         overflow |-> r.overflow, traversed |-> {}]
  /\ UNCHANGED nonPureVars

\* inhibit_garbage_collection, and the unbind_to that runs
\* allow_garbage_collection.
PureInhibitGC ==
  /\ pure.specpdl < 1
  /\ pure' = inhibit_garbage_collection(pure)
  /\ pure_last' = [op |-> "inhibit_garbage_collection", result |-> NULL,
                   overflow |-> FALSE, traversed |-> {}]
  /\ UNCHANGED <<pure_allocs, nonPureVars>>
PureUnbindTo ==
  /\ pure.specpdl > 0
  /\ pure' = unbind_to(pure)
  /\ pure_last' = [op |-> "unbind_to", result |-> NULL,
                   overflow |-> FALSE, traversed |-> {}]
  /\ UNCHANGED <<pure_allocs, nonPureVars>>

\* garbage_collect: nothing if gc_inhibited; otherwise marking pops every
\* object the program refers to.
PureGarbageCollect ==
  /\ pure_last' = [op |-> "garbage_collect", result |-> NULL,
                   overflow |-> FALSE,
                   traversed |-> IF pure.gc_inhibited THEN {}
                                 ELSE Traversed(pure_allocs)]
  /\ UNCHANGED <<pure, pure_allocs, nonPureVars>>

PureNext ==
  \/ \E size \in 1..2, type \in {0, 0 - 1, 0 - 2} :
       PureAllocStorage(size, type)
  \/ PureInhibitGC
  \/ PureUnbindTo
  \/ PureGarbageCollect

\* Whether two pieces of storage have a byte in common.
PureOverlap(a, b) ==
  a.region = b.region /\ a.start < b.end /\ b.start < a.end

\* The part of C33 about the storage: what pure_alloc returns lies in the
\* region purebeg points to, a Lisp object at an aligned address, and has
\* no byte in common with storage handed out before.
C33_StorageDisjoint ==
  /\ \A a \in pure_allocs :
       /\ 0 <= a.start
       /\ a.end <= IF a.region = 0 THEN PURESIZE ELSE small_amount
       /\ a.type >= 0 => a.start % LISP_ALIGNMENT = 0
  /\ \A a, b \in pure_allocs : a # b => ~ PureOverlap(a, b)

\* C33 as the claim states it: no object allocated by pure_alloc is marked
\* or traversed by process_mark_stack, and the storage pure_alloc returns
\* is inside the pure region and overlaps no earlier pure allocation.
C33_AsClaimed ==
  /\ pure_last.traversed = {}
  /\ C33_StorageDisjoint

(***************************************************************************)
(* Allocation of strings: make_clear_multibyte_string, allocate_string,    *)
(* the test of STRING_BYTES_MAX in allocate_string_data, and the part of   *)
(* sweep_strings that rebuilds string_free_list.  The data of strings is   *)
(* kept as the list of the sdata set up (the string model has the          *)
(* sblocks); sizes are scaled: a header counts 1 in bytes_since_gc and an  *)
(* sdata its bytes.                                                        *)
(***************************************************************************)
\* The headers of a string block, the string blocks lisp_malloc can supply,
\* the largest number of bytes of a string, and the strings the model goes
\* to.
BLOCK_NSTRINGS == 2
MaxStringBlocks == 2
STRING_BYTES_MAX == 2
MaxStringsConsed == 4
sizeof_Lisp_String == 1

\* Block b holds the headers (b - 1) * BLOCK_NSTRINGS + 1 ..
\* b * BLOCK_NSTRINGS.
StringHeaders == 1..(MaxStringBlocks * BLOCK_NSTRINGS)
StringAt(b, i) == (b - 1) * BLOCK_NSTRINGS + i + 1

\* The headers of a new block b put on the free list free: from the last
\* to the first, each at the head.
RECURSIVE BlockOntoFreeList(_, _, _)
BlockOntoFreeList(free, b, i) ==
  IF i < 0 THEN free
  ELSE BlockOntoFreeList(<<StringAt(b, i)>> \o free, b, i - 1)

\* Mutant: the header is counted before lisp_malloc is called.
allocate_string_counting_first(h, malloc_ok) ==
  IF h.string_free_list = <<>>
    THEN [h |-> [h EXCEPT !.strings_consed = @ + 1,
                          !.bytes_since_gc = @ + sizeof_Lisp_String],
          s |-> NULL, end |-> "memory_full"]
  ELSE [h |-> [h EXCEPT !.string_free_list = Tail(@),
                        !.strings_consed = @ + 1,
                        !.bytes_since_gc = @ + sizeof_Lisp_String],
        s |-> Head(h.string_free_list), end |-> "return"]

\* allocate_string (): a new string block if string_free_list is null,
\* then a header is popped and counted.  malloc_ok is whether lisp_malloc
\* gets memory; if not it calls memory_full, which does not return.
allocate_string(h, malloc_ok) ==
  LET b == CHOOSE x \in 1..MaxStringBlocks :
             /\ \A k \in 1..Len(h.string_blocks) : h.string_blocks[k] # x
             /\ \A y \in 1..(x - 1) :
                  \E k \in 1..Len(h.string_blocks) : h.string_blocks[k] = y
      h1 == IF h.string_free_list = <<>>
              THEN [h EXCEPT !.string_blocks = <<b>> \o @,
                             !.string_free_list =
                                BlockOntoFreeList(<<>>, b,
                                                  BLOCK_NSTRINGS - 1)]
            ELSE h
  IN IF h.string_free_list = <<>> /\ ~ malloc_ok
       THEN [h |-> h, s |-> NULL, end |-> "memory_full"]
     ELSE [h |-> [h1 EXCEPT !.string_free_list = Tail(@),
                            !.strings_consed = @ + 1,
                            !.bytes_since_gc = @ + sizeof_Lisp_String],
           s |-> Head(h1.string_free_list), end |-> "return"]

\* Mutant: the bytes are tested before a header is taken.
make_clear_multibyte_string_testing_first(h, nchars, nbytes, malloc_ok) ==
  IF nbytes = 0 THEN [h |-> h, s |-> NULL, end |-> "return"]
  ELSE IF STRING_BYTES_MAX < nbytes
    THEN [h |-> h, s |-> NULL, end |-> "signal"]
  ELSE LET a == allocate_string(h, malloc_ok)
       IN IF a.end = "memory_full" THEN a
          ELSE
          [h |-> [a.h EXCEPT !.data[a.s] = nbytes,
                             !.sdata = Append(@, <<a.s, nbytes>>),
                             !.bytes_since_gc = @ + nbytes,
                             !.string_chars_consed = @ + nbytes],
           s |-> a.s, end |-> "return"]

\* make_clear_multibyte_string (nchars, nbytes, q_clear): allocate_string,
\* then allocate_string_data, which calls string_overflow if
\* STRING_BYTES_MAX < nbytes and otherwise sets up an sdata, then the count
\* of the bytes.
make_clear_multibyte_string(h, nchars, nbytes, malloc_ok) ==
  IF nbytes = 0 THEN [h |-> h, s |-> NULL, end |-> "return"]
  ELSE LET a == allocate_string(h, malloc_ok)
       IN IF a.end = "memory_full" THEN a
          ELSE IF STRING_BYTES_MAX < nbytes
            THEN [h |-> a.h, s |-> a.s, end |-> "signal"]
          ELSE [h |-> [a.h EXCEPT !.data[a.s] = nbytes,
                                  !.sdata = Append(@, <<a.s, nbytes>>),
                                  !.bytes_since_gc = @ + nbytes,
                                  !.string_chars_consed = @ + nbytes],
                s |-> a.s, end |-> "return"]

\* The loop of sweep_strings over the headers of block b from i on: a
\* header with data that is not marked loses its data, and it and every
\* header without data are put on the free list.
RECURSIVE SweepStringBlock(_, _, _, _)
SweepStringBlock(r, marked, b, i) ==
  IF i >= BLOCK_NSTRINGS THEN r
  ELSE LET s == StringAt(b, i)
       IN IF r.data[s] # 0 /\ s \in marked
            THEN SweepStringBlock(r, marked, b, i + 1)
          ELSE SweepStringBlock(
                 [r EXCEPT !.data[s] = 0,
                           !.free = <<s>> \o @,
                           !.nfree = @ + 1],
                 marked, b, i + 1)

\* The loop of sweep_strings over the blocks: a block of free headers only
\* is freed if more than BLOCK_NSTRINGS free headers have been counted;
\* the others are put on live_blocks.
RECURSIVE SweepStringBlocks(_, _, _)
SweepStringBlocks(r, marked, blocks) ==
  IF blocks = <<>> THEN r
  ELSE LET b == Head(blocks)
           t == SweepStringBlock([r EXCEPT !.nfree = 0], marked, b, 0)
       IN SweepStringBlocks(
            IF t.nfree = BLOCK_NSTRINGS
                 /\ t.total_free_strings > BLOCK_NSTRINGS
              THEN [t EXCEPT !.free = r.free]
            ELSE [t EXCEPT !.total_free_strings = @ + t.nfree,
                           !.live_blocks = <<b>> \o @],
            marked, Tail(blocks))

StringAllocInit ==
  /\ sa = [string_blocks |-> <<>>, string_free_list |-> <<>>,
           data |-> [s \in StringHeaders |-> 0], sdata |-> <<>>,
           strings_consed |-> 0, string_chars_consed |-> 0,
           bytes_since_gc |-> 0]
  /\ sa_last = [op |-> "init", nbytes |-> 0, end |-> "return"]

\* A call of make_clear_multibyte_string; lisp_malloc has no memory when
\* it has supplied MaxStringBlocks blocks, and may have none before.
MakeClearMultibyteString(nbytes, malloc_ok) ==
  /\ sa.strings_consed < MaxStringsConsed
  /\ malloc_ok => Len(sa.string_blocks) < MaxStringBlocks
  /\ LET r == make_clear_multibyte_string(sa, nbytes, nbytes, malloc_ok)
     IN /\ sa' = r.h
        /\ sa_last' = [op |-> "make_clear_multibyte_string",
                       nbytes |-> nbytes, end |-> r.end]
  /\ UNCHANGED nonStringAllocVars

\* garbage_collect with the strings of marked referred to: sweep_strings,
\* the sdata of the strings freed given up, and bytes_since_gc = 0.
GarbageCollectStringHeaders(marked) ==
  /\ marked \subseteq {s \in StringHeaders : sa.data[s] # 0}
  /\ LET r == SweepStringBlocks(
                [data |-> sa.data, free |-> <<>>, nfree |-> 0,
                 total_free_strings |-> 0, live_blocks |-> <<>>],
                marked, sa.string_blocks)
     IN sa' = [sa EXCEPT !.string_blocks = r.live_blocks,
                         !.string_free_list = r.free,
                         !.data = r.data,
                         !.sdata = SelectSeq(@, LAMBDA d : d[1] \in marked),
                         !.bytes_since_gc = 0]
  /\ sa_last' = [op |-> "garbage_collect", nbytes |-> 0, end |-> "return"]
  /\ UNCHANGED nonStringAllocVars

StringAllocNext ==
  \/ \E nbytes \in 0..(STRING_BYTES_MAX + 1), malloc_ok \in BOOLEAN :
       MakeClearMultibyteString(nbytes, malloc_ok)
  \/ \E marked \in SUBSET StringHeaders : GarbageCollectStringHeaders(marked)

\* The headers on string_free_list.
FreeStringHeaders(h) ==
  {h.string_free_list[k] : k \in 1..Len(h.string_free_list)}

\* C34 as the claim states it: a call that ends with the error of
\* string_overflow has taken no header off string_free_list, advanced no
\* counter and changed no sdata.
C34_AsClaimed ==
  [][(sa_last'.op = "make_clear_multibyte_string" /\ sa_last'.end = "signal")
       => sa' = sa]_vars

\* C34 (as amended): a call of make_clear_multibyte_string for more than
\* STRING_BYTES_MAX bytes ends with the error of string_overflow, raised by
\* allocate_string_data after allocate_string has run: no sdata and no data
\* pointer has changed and string_chars_consed is what it was, but a header
\* has been taken off string_free_list (from a new string block if the list
\* was empty) and strings_consed and bytes_since_gc count it; the header
\* has a null data pointer, and after the next sweep_strings every header
\* without data of a block still linked is on string_free_list again.
C34_OverflowAfterHeaderTaken ==
  [][/\ (sa_last'.op = "make_clear_multibyte_string"
           /\ sa_last'.nbytes > STRING_BYTES_MAX
           /\ sa_last'.end # "memory_full")
          => /\ sa_last'.end = "signal"
             /\ sa'.sdata = sa.sdata
             /\ sa'.data = sa.data
             /\ sa'.string_chars_consed = sa.string_chars_consed
             /\ sa'.strings_consed = sa.strings_consed + 1
             /\ sa'.bytes_since_gc = sa.bytes_since_gc + sizeof_Lisp_String
             /\ IF sa.string_free_list # <<>>
                  THEN /\ sa'.string_free_list = Tail(sa.string_free_list)
                       /\ sa'.string_blocks = sa.string_blocks
                       /\ sa.data[Head(sa.string_free_list)] = 0
                ELSE /\ Len(sa'.string_free_list) = BLOCK_NSTRINGS - 1
                     /\ Len(sa'.string_blocks) = Len(sa.string_blocks) + 1
     /\ sa_last'.op = "garbage_collect"
          => \A b \in {sa'.string_blocks[k] : k \in 1..Len(sa'.string_blocks)},
                i \in 0..(BLOCK_NSTRINGS - 1) :
               sa'.data[StringAt(b, i)] = 0
                 => StringAt(b, i) \in FreeStringHeaders(sa')]_vars

C34_Witness ==
  /\ sa_last.op = "make_clear_multibyte_string"
  /\ sa_last.end = "signal"
  /\ sa.sdata # <<>>
  /\ \E k \in 1..Len(sa.string_blocks), i \in 0..(BLOCK_NSTRINGS - 1) :
       /\ sa.data[StringAt(sa.string_blocks[k], i)] = 0
       /\ StringAt(sa.string_blocks[k], i) \notin FreeStringHeaders(sa)

(***************************************************************************)
(* Symbols: Fmake_symbol, the pinning of a symbol by purecopy,             *)
(* mark_pinned_symbols and sweep_symbols.  A symbol is the number of its   *)
(* slot; a block is the number lisp_malloc gave it, which it can give      *)
(* again once the block is freed.                                          *)
(***************************************************************************)
\* The symbols of a symbol block, the blocks lisp_malloc can supply, the
\* symbols the model pins and the symbols it makes.
BLOCK_NSYMBOLS == 2
MaxSymbolBlocks == 4
MaxPinned == 2
MaxSymbolsConsed == MaxSymbolBlocks * BLOCK_NSYMBOLS

SymbolBlockIds == 1..MaxSymbolBlocks
SymbolAt(b, i) == (b - 1) * BLOCK_NSYMBOLS + i + 1
SYMBOL_BLOCK(c) == ((c - 1) \div BLOCK_NSYMBOLS) + 1
SYMBOL_INDEX(c) == (c - 1) % BLOCK_NSYMBOLS
SymbolsOfBlock(b) == {SymbolAt(b, i) : i \in 0..(BLOCK_NSYMBOLS - 1)}

\* The place of block b in the chain from symbol_block, 0 if it is not
\* linked.
SymbolBlockPlace(s, b) ==
  IF \E k \in 1..Len(s.symbol_block) : s.symbol_block[k] = b
  THEN CHOOSE k \in 1..Len(s.symbol_block) : s.symbol_block[k] = b
  ELSE 0

\* The symbols below lim in the k-th block of the chain: lim is
\* symbol_block_index for the block at the head and BLOCK_NSYMBOLS for the
\* others.
SymbolLim(s, k) == IF k = 1 THEN s.symbol_block_index ELSE BLOCK_NSYMBOLS
SymbolsBelowLim(s, k) ==
  {SymbolAt(s.symbol_block[k], i) : i \in 0..(SymbolLim(s, k) - 1)}

\* Fmake_symbol: the head of symbol_free_list, else the next symbol of the
\* head block, with a new block b when that one is used up; init_symbol
\* clears the pinned bit.
Fmake_symbol(s, b) ==
  LET taken ==
        IF s.symbol_free_list # <<>>
        THEN [s EXCEPT !.symbol_free_list = Tail(@)]
        ELSE LET t == IF s.symbol_block_index = BLOCK_NSYMBOLS
                      THEN [s EXCEPT !.symbol_block = <<b>> \o @,
                                     !.symbol_block_index = 0]
                      ELSE s
             IN [t EXCEPT !.symbol_block_index = @ + 1]
      val == IF s.symbol_free_list # <<>>
             THEN Head(s.symbol_free_list)
             ELSE SymbolAt(Head(taken.symbol_block),
                           taken.symbol_block_index - 1)
  IN [taken EXCEPT !.live = @ \cup {val}, !.pinned = @ \ {val},
                   !.symbols_consed = @ + 1]

\* purecopy of a symbol that is not a C symbol.
purecopy(s, obj) ==
  IF obj \notin s.pinned
  THEN [s EXCEPT !.pinned = @ \cup {obj},
                 !.symbol_block_pinned = Head(s.symbol_block)]
  ELSE s

\* mark_pinned_symbols: the sets of symbols it can mark.  From a
\* symbol_block_pinned that is linked it marks the symbols with the pinned
\* bit below lim in that block and the blocks after it, lim being
\* symbol_block_index only if symbol_block_pinned is symbol_block.  From a
\* block that has been freed it reads freed storage, which can hold any
\* next and so lead it to any of the symbols with the pinned bit.
mark_pinned_symbols(s) ==
  IF s.symbol_block_pinned = NULL THEN {{}}
  ELSE LET k == SymbolBlockPlace(s, s.symbol_block_pinned)
       IN IF k = 0
          THEN SUBSET s.pinned
          ELSE {{c \in s.pinned :
                   \E j \in k..Len(s.symbol_block) :
                     /\ SYMBOL_BLOCK(c) = s.symbol_block[j]
                     /\ SYMBOL_INDEX(c)
                          < (IF j = k /\ k = 1 THEN s.symbol_block_index
                             ELSE BLOCK_NSYMBOLS)}}

\* The symbols i.. of block b that sweep_symbols chains to the free list:
\* each one not marked, at the head.
RECURSIVE SweepSymbolBlock(_, _, _, _, _)
SweepSymbolBlock(free, marked, b, i, lim) ==
  IF i >= lim THEN free
  ELSE SweepSymbolBlock(IF SymbolAt(b, i) \in marked THEN free
                        ELSE <<SymbolAt(b, i)>> \o free,
                        marked, b, i + 1, lim)

\* sweep_symbols from the k-th block of the chain: st holds the free list,
\* num_free and the blocks kept so far.  A block whose BLOCK_NSYMBOLS
\* symbols are all free is unlinked and freed once num_free is above
\* BLOCK_NSYMBOLS, and the free list goes back to what it was before the
\* block.
RECURSIVE SweepSymbolBlocks(_, _, _, _)
SweepSymbolBlocks(st, marked, s, k) ==
  IF k > Len(s.symbol_block) THEN st
  ELSE LET b == s.symbol_block[k]
           free == SweepSymbolBlock(st.free, marked, b, 0, SymbolLim(s, k))
           this_free == Len(free) - Len(st.free)
       IN IF this_free = BLOCK_NSYMBOLS /\ st.num_free > BLOCK_NSYMBOLS
          THEN SweepSymbolBlocks(st, marked, s, k + 1)
          ELSE SweepSymbolBlocks(
                 [free |-> free, num_free |-> st.num_free + this_free,
                  kept |-> st.kept \o <<b>>],
                 marked, s, k + 1)

\* sweep_symbols, given the mark bits.  The symbols in use afterwards are
\* the marked ones of the blocks kept; symbol_block_pinned is not assigned.
sweep_symbols(s, marked) ==
  LET st == SweepSymbolBlocks([free |-> <<>>, num_free |-> 0,
                               kept |-> <<>>], marked, s, 1)
      keptSymbols ==
        {c \in 1..(MaxSymbolBlocks * BLOCK_NSYMBOLS) :
           \E k \in 1..Len(st.kept) : st.kept[k] = SYMBOL_BLOCK(c)}
  IN [s EXCEPT !.symbol_block = st.kept,
               !.symbol_free_list = st.free,
               !.live = {c \in keptSymbols :
                           \E k \in 1..Len(s.symbol_block) :
                             /\ c \in SymbolsBelowLim(s, k)
                             /\ c \in marked},
               !.pinned = @ \cap keptSymbols]

SymbolInit ==
  /\ sy = [symbol_block |-> <<>>, symbol_block_index |-> BLOCK_NSYMBOLS,
           symbol_block_pinned |-> NULL, symbol_free_list |-> <<>>,
           live |-> {}, pinned |-> {}, symbols_consed |-> 0]
  /\ sy_last = [op |-> "none", reclaimed |-> {}, freed_read |-> FALSE]

\* (make-symbol NAME); b is the block lisp_malloc returns if it is called.
SymbolMake(b) ==
  /\ \A k \in 1..Len(sy.symbol_block) : sy.symbol_block[k] # b
  /\ \A a \in 1..(b - 1) :
       \E k \in 1..Len(sy.symbol_block) : sy.symbol_block[k] = a
  /\ (sy.symbol_free_list = <<>> /\ sy.symbol_block_index = BLOCK_NSYMBOLS)
       => Len(sy.symbol_block) < MaxSymbolBlocks
  /\ sy.symbols_consed < MaxSymbolsConsed
  /\ sy' = Fmake_symbol(sy, b)
  /\ sy_last' = [op |-> "make_symbol", reclaimed |-> {},
                 freed_read |-> FALSE]
  /\ UNCHANGED nonSymbolVars

\* (purecopy OBJ) with OBJ a symbol in use.
SymbolPurecopy(obj) ==
  /\ obj \in sy.live
  /\ Cardinality(sy.pinned \cup {obj}) <= MaxPinned
  /\ sy' = purecopy(sy, obj)
  /\ sy_last' = [op |-> "purecopy", reclaimed |-> {}, freed_read |-> FALSE]
  /\ UNCHANGED nonSymbolVars

\* A collection: roots are the symbols in use that the other roots mark.
SymbolGarbageCollect ==
  \E roots \in SUBSET sy.live, pinnedMarks \in mark_pinned_symbols(sy) :
       /\ sy' = sweep_symbols(sy, roots \cup pinnedMarks)
       /\ sy_last' =
            [op |-> "garbage_collect",
             reclaimed |-> (sy.live \cap sy.pinned) \ sy'.live,
             freed_read |->
               /\ sy.symbol_block_pinned # NULL
               /\ SymbolBlockPlace(sy, sy.symbol_block_pinned) = 0]
  /\ UNCHANGED nonSymbolVars

SymbolNext ==
  \/ \E b \in SymbolBlockIds : SymbolMake(b)
  \/ \E obj \in 1..(MaxSymbolBlocks * BLOCK_NSYMBOLS) : SymbolPurecopy(obj)
  \/ SymbolGarbageCollect

\* C37: symbol_block_pinned is null or a block of the chain from
\* symbol_block, every pinned symbol in use lies in that block or one after
\* it, and no collection reclaims a pinned symbol.
C37_AsClaimed ==
  /\ sy.symbol_block_pinned = NULL
       \/ SymbolBlockPlace(sy, sy.symbol_block_pinned) > 0
  /\ \A c \in sy.live \cap sy.pinned :
       /\ SymbolBlockPlace(sy, sy.symbol_block_pinned) > 0
       /\ SymbolBlockPlace(sy, SYMBOL_BLOCK(c))
            >= SymbolBlockPlace(sy, sy.symbol_block_pinned)
  /\ sy_last.reclaimed = {}

(***************************************************************************)
(* Aligned allocation: lisp_align_malloc and lisp_align_free.  A block is  *)
(* <<group, index>>; the busy word of a group is the abase field of its    *)
(* first block.                                                            *)
(***************************************************************************)
\* The blocks of a group (1 << 4 in the source) and the groups malloc can
\* supply.
ABLOCKS_NBLOCKS == 3
MaxAblocks == 2

AblocksIds == 1..MaxAblocks
NoAblocks == [allocated |-> FALSE, busy |-> 0, aligned |-> FALSE]

\* The blocks of a group the code can use: the last one is lost when the
\* base malloc returned was not aligned.
UsableAblocks(aligned) ==
  IF aligned THEN ABLOCKS_NBLOCKS ELSE ABLOCKS_NBLOCKS - 1

\* The blocks 0 .. n - 1 of group g put on the free list, each at the head.
RECURSIVE AblocksOntoFreeList(_, _, _, _)
AblocksOntoFreeList(free, g, i, n) ==
  IF i >= n THEN free
  ELSE AblocksOntoFreeList(<<<<g, i>>>> \o free, g, i + 1, n)

\* lisp_align_malloc with free_ablock null getting group g from malloc,
\* aligned or not; then the head of free_ablock is taken and the busy word
\* of its group goes up by 2.
lisp_align_malloc(a, g, aligned) ==
  LET a1 == IF a.free_ablock = <<>>
            THEN [a EXCEPT
                    !.free_ablock =
                       AblocksOntoFreeList(<<>>, g, 0,
                                           UsableAblocks(aligned)),
                    !.groups[g] =
                       [allocated |-> TRUE,
                        busy |-> IF aligned THEN 1 ELSE 0,
                        aligned |-> aligned]]
            ELSE a
      val == Head(a1.free_ablock)
      abase == val[1]
  IN [a |-> [a1 EXCEPT !.groups[abase].busy = @ + 2,
                       !.free_ablock = Tail(@)],
      val |-> val]

\* Mutant: the group is given back when one block is still handed out.
lisp_align_free_at_one(a, block) ==
  LET abase == block[1]
      free == <<block>> \o a.free_ablock
      busy == a.groups[abase].busy - 2
      aligned == busy % 2 = 1
      atop == UsableAblocks(aligned)
      InGroup(b) == b[1] = abase /\ b[2] < atop
  IN IF busy < 4
     THEN [a |-> [a EXCEPT !.groups[abase] = NoAblocks,
                           !.free_ablock =
                              SelectSeq(free, LAMBDA b : ~InGroup(b))],
           freed |-> abase,
           i |-> Len(SelectSeq(free, InGroup)),
           atop |-> atop]
     ELSE [a |-> [a EXCEPT !.groups[abase].busy = busy,
                           !.free_ablock = free],
           freed |-> NULL, i |-> 0, atop |-> 0]

\* lisp_align_free (block): the block goes to the head of free_ablock and
\* the busy word of its group down by 2; below 2 every block of the group
\* is taken off free_ablock, counted in i, and the group is freed.
lisp_align_free(a, block) ==
  LET abase == block[1]
      free == <<block>> \o a.free_ablock
      busy == a.groups[abase].busy - 2
      aligned == busy # 0
      atop == UsableAblocks(aligned)
      InGroup(b) == b[1] = abase /\ b[2] < atop
  IN IF busy < 2
     THEN [a |-> [a EXCEPT !.groups[abase] = NoAblocks,
                           !.free_ablock =
                              SelectSeq(free, LAMBDA b : ~InGroup(b))],
           freed |-> abase,
           i |-> Len(SelectSeq(free, InGroup)),
           atop |-> atop]
     ELSE [a |-> [a EXCEPT !.groups[abase].busy = busy,
                           !.free_ablock = free],
           freed |-> NULL, i |-> 0, atop |-> 0]

AblockInit ==
  /\ ab = [groups |-> [g \in AblocksIds |-> NoAblocks],
           free_ablock |-> <<>>]
  /\ ab_out = {}
  /\ ab_last = [op |-> "none", freed |-> NULL, i |-> 0, atop |-> 0]

\* lisp_align_malloc (nbytes, type); when free_ablock is null malloc is
\* called and returns group g, whose base is aligned or not.
AblockMalloc(g, aligned) ==
  /\ ab.free_ablock = <<>>
       => /\ ~ab.groups[g].allocated
          /\ \A h \in 1..(g - 1) : ab.groups[h].allocated
  /\ LET r == lisp_align_malloc(ab, g, aligned)
     IN /\ ab' = r.a
        /\ ab_out' = ab_out \cup {r.val}
  /\ ab_last' = [op |-> "lisp_align_malloc", freed |-> NULL, i |-> 0,
                 atop |-> 0]
  /\ UNCHANGED nonAblockVars

\* lisp_align_malloc when malloc returns null: memory_full, which does not
\* return.
AblockMemoryFull ==
  /\ ab.free_ablock = <<>>
  /\ ab_last' = [op |-> "memory_full", freed |-> NULL, i |-> 0, atop |-> 0]
  /\ UNCHANGED <<ab, ab_out, nonAblockVars>>

\* lisp_align_free (block) of a block the caller was given.
AblockFree(block) ==
  /\ block \in ab_out
  /\ LET r == lisp_align_free(ab, block)
     IN /\ ab' = r.a
        /\ ab_last' = [op |-> "lisp_align_free", freed |-> r.freed,
                       i |-> r.i, atop |-> r.atop]
  /\ ab_out' = ab_out \ {block}
  /\ UNCHANGED nonAblockVars

AblockNext ==
  \/ \E g \in AblocksIds, aligned \in BOOLEAN : AblockMalloc(g, aligned)
  \/ AblockMemoryFull
  \/ \E g \in AblocksIds, i \in 0..(ABLOCKS_NBLOCKS - 1) :
       AblockFree(<<g, i>>)

\* The blocks of group g handed out, and those on the free list free.
AblocksOut(out, g) == {b \in out : b[1] = g}
AblocksFree(free, g) ==
  {b \in {free[k] : k \in 1..Len(free)} : b[1] = g}

\* C40: the busy word of every group is twice the number of its blocks
\* handed out, plus 1 if its base was aligned; lisp_align_free frees the
\* group of the block exactly when none of its blocks is handed out any
\* more, and then all the usable blocks of the group were on free_ablock
\* with the block just freed, i counts them and none is left there.
C40_BusyCountsBlocksOut ==
  [][/\ \A g \in AblocksIds :
          ab'.groups[g].allocated
            => ab'.groups[g].busy
                 = 2 * Cardinality(AblocksOut(ab_out', g))
                     + (IF ab'.groups[g].aligned THEN 1 ELSE 0)
     /\ \A g \in AblocksIds, k \in 0..(ABLOCKS_NBLOCKS - 1) :
          ab_last'.op = "lisp_align_free" /\ <<g, k>> \in ab_out
            /\ <<g, k>> \notin ab_out'
            => LET usable == UsableAblocks(ab.groups[g].aligned)
               IN /\ ab_last'.freed = g <=> AblocksOut(ab_out', g) = {}
                  /\ ab_last'.freed = g
                       => /\ ~ab'.groups[g].allocated
                          /\ AblocksFree(ab.free_ablock, g)
                               \cup {<<g, k>>}
                               = {<<g, j>> : j \in 0..(usable - 1)}
                          /\ ab_last'.i = usable
                          /\ ab_last'.atop = usable
                          /\ AblocksFree(ab'.free_ablock, g) = {}
                  /\ ab_last'.freed # g
                       => /\ ab_last'.freed = NULL
                          /\ ab'.groups[g].allocated
                          /\ ab'.free_ablock
                               = <<<<g, k>>>> \o ab.free_ablock]_vars

\* A state of C40: lisp_align_free has just freed a group whose base was
\* not aligned, taking its blocks from among those of another group on
\* free_ablock, while a block of the other group is handed out.
C40_Witness ==
  /\ ab_last.op = "lisp_align_free"
  /\ ab_last.freed # NULL
  /\ ab_last.i = ABLOCKS_NBLOCKS - 1
  /\ ab.free_ablock # <<>>
  /\ ab_out # {}

(***************************************************************************)
(* Specifications.                                                         *)
(***************************************************************************)
Init ==
  TreeInit /\ TriggerInit /\ HeapInit /\ FinInit /\ StringInit
  /\ WeakInit
  /\ VectorInit
  /\ ControlInit
  /\ CounterInit
  /\ XpallocInit
  /\ HashInit
  /\ PureInit
  /\ StringAllocInit
  /\ SymbolInit
  /\ AblockInit

SpecTree == Init /\ [][TreeNext]_vars
SpecTrigger == Init /\ [][TriggerNext]_vars
SpecHeap == Init /\ [][HeapNext]_vars
SpecFinalizer == Init /\ [][FinNext]_vars
SpecString == Init /\ [][StringNext]_vars
SpecWeak == Init /\ [][WeakNext]_vars
SpecRing == Init /\ [][RingNext]_vars
SpecVector == Init /\ [][VectorNext]_vars
SpecControl == Init /\ [][ControlNext]_vars
SpecCounter == Init /\ [][CounterNext]_vars
SpecXpalloc == Init /\ [][XpallocNext]_vars
SpecHash == Init /\ [][HashNext]_vars
SpecPure == Init /\ [][PureNext]_vars
SpecStringAlloc == Init /\ [][StringAllocNext]_vars
SpecSymbol == Init /\ [][SymbolNext]_vars
SpecAblock == Init /\ [][AblockNext]_vars

=============================================================================
